---------------------------- MODULE Spec2Model ----------------------------
(***************************************************************************)
(* gotty WebSocket handler (server/handlers.go): generateHandleWS, its     *)
(* timer goroutine and processWSConn, over the shared connection counter,  *)
(* the once flag and the server context.                                   *)
(*                                                                         *)
(* Strings are sequences of one-character strings; the bytes a base64      *)
(* token decodes to are sequences of numbers.                              *)
(***************************************************************************)
EXTENDS Integers, Sequences, FiniteSets, TLC

(***************************************************************************)
(* Bounds of the model.                                                    *)
(***************************************************************************)
\* handler invocations that can be in flight at the same time
NReq == 2
\* the configured timeout, in clock ticks
TimeoutTicks == 2
\* frames a client sends in one session
MaxInbound == 2
\* bytes a process prints in one session
MaxOutput == 2
\* connection errors a page sees
MaxErrors == 2
\* chunk requests a client sends
MaxUploads == 4
\* uploads of one target name that run at once
NUploads == 2

Reqs == 1..NReq

(***************************************************************************)
(* strings                                                                 *)
(***************************************************************************)
Range(s) == {s[i] : i \in DOMAIN s}

\* index of the first occurrence of character c in s, 0 when absent
IndexOf(s, c) ==
    IF \E i \in DOMAIN s : s[i] = c
    THEN CHOOSE i \in DOMAIN s : s[i] = c /\ \A j \in 1..(i - 1) : s[j] # c
    ELSE 0

\* strings.Cut(s, sep) for a one-character sep
CutBefore(s, c) == IF IndexOf(s, c) = 0 THEN s ELSE SubSeq(s, 1, IndexOf(s, c) - 1)
CutAfter(s, c) == IF IndexOf(s, c) = 0 THEN <<>> ELSE SubSeq(s, IndexOf(s, c) + 1, Len(s))
CutFound(s, c) == IndexOf(s, c) # 0

UpperLetters ==
    <<"A", "B", "C", "D", "E", "F", "G", "H", "I", "J", "K", "L", "M",
      "N", "O", "P", "Q", "R", "S", "T", "U", "V", "W", "X", "Y", "Z">>
LowerLetters ==
    <<"a", "b", "c", "d", "e", "f", "g", "h", "i", "j", "k", "l", "m",
      "n", "o", "p", "q", "r", "s", "t", "u", "v", "w", "x", "y", "z">>
Digits == <<"0", "1", "2", "3", "4", "5", "6", "7", "8", "9">>

\* strings.ToLower
ToLower(s) ==
    [i \in DOMAIN s |->
        IF IndexOf(UpperLetters, s[i]) # 0
        THEN LowerLetters[IndexOf(UpperLetters, s[i])]
        ELSE s[i]]

(***************************************************************************)
(* base64.StdEncoding.DecodeString: '\r' and '\n' are skipped, the rest is *)
(* read in quanta of four characters of the standard alphabet, the last    *)
(* quantum may end in "=" or "=="; anything else is a CorruptInputError.   *)
(* Trailing bits of a padded quantum are not checked (not Strict).         *)
(***************************************************************************)
B64Alphabet == UpperLetters \o LowerLetters \o Digits \o <<"+", "/">>
B64Val(c) == IndexOf(B64Alphabet, c) - 1
IsB64(c) == IndexOf(B64Alphabet, c) # 0
B64Pad == "="

StripNewlines(s) == SelectSeq(s, LAMBDA c : c \notin {"\n", "\r"})

\* the three bytes of a full quantum
Quantum3(q) ==
    LET v == B64Val(q[1]) * 262144 + B64Val(q[2]) * 4096 + B64Val(q[3]) * 64 + B64Val(q[4])
    IN  <<v \div 65536, (v \div 256) % 256, v % 256>>
\* xxx= : two bytes
Quantum2(q) ==
    LET v == B64Val(q[1]) * 262144 + B64Val(q[2]) * 4096 + B64Val(q[3]) * 64
    IN  <<v \div 65536, (v \div 256) % 256>>
\* xx== : one byte
Quantum1(q) ==
    LET v == B64Val(q[1]) * 262144 + B64Val(q[2]) * 4096
    IN  <<v \div 65536>>

QuantumOk(q, last) ==
    \/ \A i \in 1..4 : IsB64(q[i])
    \/ last /\ IsB64(q[1]) /\ IsB64(q[2]) /\ IsB64(q[3]) /\ q[4] = B64Pad
    \/ last /\ IsB64(q[1]) /\ IsB64(q[2]) /\ q[3] = B64Pad /\ q[4] = B64Pad

QuantumBytes(q) ==
    IF q[3] = B64Pad THEN Quantum1(q)
    ELSE IF q[4] = B64Pad THEN Quantum2(q)
    ELSE Quantum3(q)

RECURSIVE DecodeQuanta(_)
DecodeQuanta(s) ==
    IF Len(s) = 0 THEN <<>>
    ELSE QuantumBytes(SubSeq(s, 1, 4)) \o DecodeQuanta(SubSeq(s, 5, Len(s)))

\* [err |-> whether DecodeString returns an error, bytes |-> the payload]
Base64Decode(token) ==
    LET s == StripNewlines(token)
        n == Len(s) \div 4
    IN  IF Len(s) % 4 # 0
             \/ \E k \in 0..(n - 1) : ~QuantumOk(SubSeq(s, 4 * k + 1, 4 * k + 4), k = n - 1)
        THEN [err |-> TRUE, bytes |-> <<>>]
        ELSE [err |-> FALSE, bytes |-> DecodeQuanta(s)]

\* server.options.Credential, "a:b", as the bytes of the string
Credential == <<97, 58, 98>>


(***************************************************************************)
(* url.Parse(queryPath) followed by URL.Query(), for strings over the      *)
(* characters ? & = : # and letters and digits (no '/', '%', '+', ';' or   *)
(* control bytes, so the authority, path-escape and query-unescape code    *)
(* of net/url changes nothing here).                                       *)
(***************************************************************************)
IsLetter(c) == IndexOf(UpperLetters, c) # 0 \/ IndexOf(LowerLetters, c) # 0
IsSchemeTail(c) == IndexOf(Digits, c) # 0 \/ c \in {"+", "-", "."}

\* net/url getScheme: the first character that is neither a letter nor
\* (after the first) a digit, '+', '-' or '.' decides
SchemeStop(s) ==
    IF \E i \in DOMAIN s : ~IsLetter(s[i])
    THEN CHOOSE i \in DOMAIN s : ~IsLetter(s[i]) /\ \A j \in 1..(i - 1) : IsLetter(s[j])
    ELSE 0
\* "missing protocol scheme"
SchemeErr(s) == SchemeStop(s) = 1 /\ s[1] = ":"
HasScheme(s) ==
    /\ SchemeStop(s) > 1
    /\ LET i == CHOOSE k \in DOMAIN s :
                    /\ ~(IsLetter(s[k]) \/ IsSchemeTail(s[k]))
                    /\ \A j \in 1..(k - 1) : IsLetter(s[j]) \/ IsSchemeTail(s[j])
       IN  (\E k \in DOMAIN s : ~(IsLetter(s[k]) \/ IsSchemeTail(s[k]))) /\ s[i] = ":"
AfterScheme(s) == IF HasScheme(s) THEN CutAfter(s, ":") ELSE s

\* [err |-> url.Parse fails, rawQuery |-> URL.RawQuery]
UrlParse(rawURL) ==
    LET u == CutBefore(rawURL, "#")
        rest == AfterScheme(u)
        path == CutBefore(rest, "?")
    IN  IF SchemeErr(u) THEN [err |-> TRUE, rawQuery |-> <<>>]
        ELSE IF ~HasScheme(u) /\ ":" \in Range(path)
             \* "first path segment in URL cannot contain colon"
             THEN [err |-> TRUE, rawQuery |-> <<>>]
        ELSE [err |-> FALSE, rawQuery |-> CutAfter(rest, "?")]

\* m[key] = append(m[key], value)
AddValue(m, key, value) ==
    IF key \in DOMAIN m
    THEN [m EXCEPT ![key] = Append(m[key], value)]
    ELSE [k \in DOMAIN m \cup {key} |-> IF k = key THEN <<value>> ELSE m[k]]

\* the map of parseQuery before any key
NoKeys == [k \in {} |-> <<>>]

\* url.Values as the set of its <<key, values>> pairs; with no key
EmptyValues == {}

\* net/url parseQuery: pairs are separated by '&', an empty pair is skipped,
\* key and value are separated by the first '='
RECURSIVE ParseQuery(_, _)
ParseQuery(m, query) ==
    IF Len(query) = 0 THEN m
    ELSE LET pair == CutBefore(query, "&")
             rest == CutAfter(query, "&")
         IN  IF Len(pair) = 0 THEN ParseQuery(m, rest)
             ELSE ParseQuery(AddValue(m, CutBefore(pair, "="), CutAfter(pair, "=")), rest)

\* query.Query()
UrlQuery(u) ==
    LET m == ParseQuery(NoKeys, u.rawQuery)
    IN  {<<k, m[k]>> : k \in DOMAIN m}


(***************************************************************************)
(* Inputs: the HTTP requests and the first WebSocket message of a client.  *)
(***************************************************************************)
TokGood == <<"Y", "T", "p", "i">>
TokGoodNL == <<"Y", "T", "p", "i", "\n">>
TokWrong == <<"Y", "T", "p", "j">>
TokPadded == <<"Y", "T", "o", "=">>
TokCorrupt == <<"Y", "T", "p">>
NoString == <<>>

HdrBasic == <<"B", "a", "s", "i", "c", " ">>
HdrLowerBasic == <<"b", "a", "s", "i", "c", " ">>
HdrBearer == <<"B", "e", "a", "r", "e", "r", " ">>
HdrNoSpace == <<"B", "a", "s", "i", "c">>

HttpRequest(method, authQuery, authorization) ==
    [method |-> method, authQuery |-> authQuery, authorization |-> authorization]

\* the requests of the admission specification
CoreRequests ==
    { HttpRequest("GET", TokGood, NoString),
      HttpRequest("GET", TokWrong, NoString),
      HttpRequest("POST", TokGood, NoString) }

\* the requests of the handshake specification
AllRequests ==
    { HttpRequest(m, q, NoString) : m \in {"GET", "POST"},
                                    q \in {TokGood, TokGoodNL, TokWrong, TokPadded, TokCorrupt} }
    \cup { HttpRequest("GET", NoString, h) :
             h \in { NoString, HdrNoSpace, HdrBasic \o TokGood, HdrLowerBasic \o TokGood,
                     HdrBearer \o TokGood, HdrBasic \o TokWrong, HdrBasic \o TokCorrupt,
                     HdrBasic } }
    \cup { HttpRequest("GET", TokWrong, HdrBasic \o TokGood),
           HttpRequest("GET", TokGood, HdrBasic \o TokWrong) }

ArgNone == <<>>
ArgOne == <<"?", "a", "=", "1">>
ArgTwo == <<"?", "a", "=", "1", "&", "b", "=", "2">>
ArgRepeat == <<"?", "a", "=", "1", "&", "a", "=", "2">>
ArgNoScheme == <<":", "a">>
ArgColon == <<"1", ":", "a">>

\* what conn.ReadMessage returns first: an error, a binary message, or a text
\* message that is malformed JSON or the JSON of an InitMessage
InitLine(kind, authToken, arguments) ==
    [kind |-> kind, AuthToken |-> authToken, Arguments |-> arguments]
NoInitLine == InitLine("none", NoString, NoString)

CoreInitLines ==
    { InitLine("init", TokGood, ArgOne),
      InitLine("init", TokWrong, ArgNone) }

AllInitLines ==
    { InitLine("init", t, a) : t \in {TokGood, TokGoodNL},
                               a \in {ArgNone, ArgOne, ArgTwo, ArgRepeat, ArgNoScheme, ArgColon} }
    \cup { InitLine("init", t, a) : t \in {TokWrong, TokPadded, TokCorrupt, NoString},
                                    a \in {ArgNone, ArgOne} }
    \cup { InitLine(k, NoString, NoString) : k \in {"readError", "binary", "malformed"} }

\* What the world outside the handler does: the requests and init messages
\* clients send, whether the upgrade, factory.New, the title template and
\* webtty.New succeed, and the errors tty.Run ends with while the context
\* is live.
\* (relay: the relay of the session is followed message by message, with the
\* frames clients send; otherwise tty.Run is known by its result only.)
Environment(requests, lines, upgradeOk, backendOk, titleOk, webttyOk, runErrors, relay, frames) ==
    [ requests |-> requests, lines |-> lines, upgradeOk |-> upgradeOk,
      backendOk |-> backendOk, titleOk |-> titleOk, webttyOk |-> webttyOk,
      runErrors |-> runErrors, relay |-> relay, frames |-> frames ]

\* the admission specification: clients differ only in what the admission
\* path reads, and a session ends with the backend's exit or cancellation
CoreEnvironment ==
    Environment(CoreRequests, CoreInitLines, BOOLEAN, {TRUE}, {TRUE}, {TRUE},
                {"ErrSlaveClosed", "other"}, FALSE, {})

\* the handshake specification: every input and every outcome
FullEnvironment ==
    Environment(AllRequests, AllInitLines, BOOLEAN, BOOLEAN, BOOLEAN, BOOLEAN,
                {"ErrSlaveClosed", "ErrMasterClosed", "other", "nil"}, FALSE, {})

(***************************************************************************)
(* The framed messages of a session: one frame is one message, a one-      *)
(* character tag followed by the payload.                                  *)
(***************************************************************************)
\* client to server
msgInputUnknown == "0"
msgInput == "1"
msgPing == "2"
msgResizeTerminal == "3"
msgSetEncoding == "4"
\* server to client
msgUnknownOutput == "0"
msgOutput == "1"
msgPong == "2"
msgSetWindowTitle == "3"
msgSetPreferences == "4"
msgSetReconnect == "5"
msgSetBufferSize == "6"

ClientTags == {msgInputUnknown, msgInput, msgPing, msgResizeTerminal, msgSetEncoding}
ServerTags == {msgUnknownOutput, msgOutput, msgPong, msgSetWindowTitle, msgSetPreferences,
               msgSetReconnect, msgSetBufferSize}

NoTag == "none"
MalformedMessage == "MalformedMessage"

\* encode(tag, payload): the tag, then the payload
encode(tag, payload) == <<tag>> \o payload

\* (a decode that splits at the wrong place when the payload begins with a digit)
decodeGreedy(bytes) ==
    IF bytes = <<>>
    THEN [err |-> MalformedMessage, tag |-> NoTag, payload |-> <<>>]
    ELSE IF Len(bytes) > 1 /\ bytes[2] \in Range(Digits)
         THEN [err |-> "nil", tag |-> bytes[1], payload |-> Tail(Tail(bytes))]
         ELSE [err |-> "nil", tag |-> Head(bytes), payload |-> Tail(bytes)]

\* (a decode that takes an empty frame for an Unknown message)
decodeLenient(bytes) ==
    IF bytes = <<>>
    THEN [err |-> "nil", tag |-> msgInputUnknown, payload |-> <<>>]
    ELSE [err |-> "nil", tag |-> Head(bytes), payload |-> Tail(bytes)]

\* decode(bytes): the first byte is the tag, the rest the payload; an empty
\* frame has neither
decode(bytes) ==
    IF bytes = <<>>
    THEN [err |-> MalformedMessage, tag |-> NoTag, payload |-> <<>>]
    ELSE [err |-> "nil", tag |-> Head(bytes), payload |-> Tail(bytes)]

\* a number as decimal text
DigitChar(d) == Digits[d + 1]
RECURSIVE Itoa(_)
Itoa(n) == IF n < 10 THEN <<DigitChar(n)>> ELSE Itoa(n \div 10) \o <<DigitChar(n % 10)>>

\* reconnect_time of the configuration
ReconnectTime == 10
\* the most bytes of process output forwarded in one Output message
ChunkMax == 2

\* the messages a client may send, and the frames that are no message
ClientMessages ==
    { <<msgInput, <<"a">> >>, <<msgInput, <<"1", "b">> >>, <<msgPing, <<>> >>,
      <<msgResizeTerminal, <<"J">> >>, <<msgSetEncoding, <<"u">> >>,
      <<msgInputUnknown, <<>> >> }
EmptyFrame == <<>>
ForeignFrame == <<"9", "a">>
ClientFrames == { encode(m[1], m[2]) : m \in ClientMessages } \cup {EmptyFrame, ForeignFrame}

\* the bytes a process may print
OutputBytes == {"x", "1"}
TitleBytes == <<"t">>

\* the session specification: a client that passes the handshake and then
\* sends any frames
SessionEnvironment ==
    Environment({HttpRequest("GET", TokGood, NoString)},
                {InitLine("init", TokGood, ArgNone)},
                {TRUE}, {TRUE}, {TRUE}, {TRUE}, {}, TRUE, ClientFrames)

\* the liveness specification: a client that passes the handshake, when it
\* sends its init message at all, and then sends pings, input and garbage
LiveEnvironment ==
    Environment({HttpRequest("GET", TokGood, NoString)},
                {InitLine("init", TokGood, ArgNone)},
                {TRUE}, {TRUE}, {TRUE}, {TRUE}, {}, TRUE,
                {encode(msgPing, <<>>), encode(msgInput, <<"a">>), EmptyFrame})

(***************************************************************************)
(* State.                                                                  *)
(***************************************************************************)
VARIABLES
    options,        \* server.options, fixed at construction
    once,           \* the int64 behind the once pointer of generateHandleWS
    onceWinners,    \* requests whose CompareAndSwap succeeded in once mode, ever
    connections,    \* counter.connections
    timerArmed,     \* counter.zeroTimer is running (or has expired unread)
    elapsed,        \* ticks since zeroTimer was last started
    timerPc,        \* the goroutine of generateHandleWS: "waiting" or "exited"
    timerCancels,   \* calls of cancel() by that goroutine
    timerFiredAt,   \* connections and elapsed when that goroutine called cancel()
    ctxCancelled,   \* ctx.Done() is closed
    cancelledBy,    \* who has called cancel(): "timer", "once"
    pc,             \* where each request's handler invocation is
    request,        \* the request of each invocation
    num,            \* the handler's num := counter.add(1)
    response,       \* status written to the ResponseWriter, 0 when none
    closeReason,    \* the handler's closeReason
    adds,           \* calls of counter.add by each invocation
    dones,          \* calls of counter.done by each invocation
    upgraded,       \* upgrader.Upgrade succeeded
    initLine,       \* the first message read by processWSConn
    factoryCalls,   \* calls of factory.New
    params,         \* the params factory.New was last called with
    backend,        \* "none", "failed" (factory.New returned an error), "open", "closed"
    slaveCloses,    \* calls of slave.Close
    connCloses,     \* calls of conn.Close
    err,            \* the error processWSConn returned
    tty,            \* the webtty session of each invocation (webtty.New, tty.Run)
    browser,        \* the page of the browser client (js/src/main.ts)
    upload,         \* the upload directories of handleChunkUpload
    title,          \* a call of titleVariables: its arguments and what it returned
    disk,           \* a target directory and the uploads that write to it at once
    touched         \* the file-system paths a request to a file handler used

admission == <<once, onceWinners, connections, timerArmed, elapsed>>
timerVars == <<timerPc, timerCancels, timerFiredAt>>
ctxVars == <<ctxCancelled, cancelledBy>>
counting == <<num, adds, dones>>
handshake == <<initLine, factoryCalls, params, backend, slaveCloses, err>>
answer == <<response, closeReason, upgraded, connCloses>>
outside == <<browser, upload, title, disk, touched>>
vars == <<options, admission, timerVars, ctxVars, pc, request, counting, handshake, answer, tty,
          outside>>

\* an optional value is the empty set or the set of the value
None == {}
Some(v) == {v}

\* the state of a webtty session
Session(state, windowTitle, permitWrite, reconnect, columns, rows) ==
    [ state |-> state,              \* "none", "Initializing", "Running", "Closing"
      windowTitle |-> windowTitle,
      permitWrite |-> permitWrite,
      reconnect |-> reconnect,
      columns |-> columns,
      rows |-> rows,
      preferences |-> None,
      encoding |-> <<>>,
      sent |-> <<>>,                \* frames written to the client transport
      wire |-> <<>>,                \* frames the client has sent that are not yet read
      inbound |-> <<>>,             \* frames read from the client transport
      decoded |-> <<>>,             \* what each of them decoded to
      produced |-> <<>>,            \* bytes the process has printed
      nread |-> 0,                  \* how many of them the session has read
      buffer |-> <<>>,              \* the chunk read and not yet forwarded
      bufferSize |-> 0,             \* accumulated output byte count
      writes |-> <<>>,              \* payloads written to the process transport
      resizes |-> 0,                \* calls of the process transport's resize
      err |-> "none" ]              \* what Run returns

NoSession == Session("none", <<>>, FALSE, None, None, None)

\* an absent key of sessionStorage
Null == "null"

\* the state of a page of the browser client
Page(authRequired, auth, fileManagerState) ==
    [ authRequired |-> authRequired,    \* gotty_enable_auth === true
      storage |-> [gotty_auth |-> auth, fileManagerState |-> fileManagerState],
      initialAuth |-> auth,             \* gotty_auth when the browser opened the page
      page |-> "closed",                \* "closed", "login", "terminal"
      storedAuth |-> Null,              \* what the page script read from gotty_auth
      authToken |-> "",                 \* the token the terminal was started with
      errors |-> 0,                     \* connection errors reported by WebTTY
      reloads |-> 0,                    \* calls of window.location.reload()
      ops |-> <<>> ]                    \* setItem, removeItem and reload, in order

NoPage == [Page(FALSE, Null, Null) EXCEPT !.page = "none"]

\* the upload directories before any request
NoUpload ==
    [ temp |-> {},              \* the chunk files of the temp directory of the fileId
      tempExists |-> FALSE,     \* whether that directory exists
      finals |-> {},            \* the files of the target directory
      requests |-> 0,           \* requests handled
      request |-> None,         \* the last request
      stored |-> {},            \* the chunk files when the last request was answered or merged
      before |-> {},            \* the files of the target directory before the last request
      answer |-> [status |-> 0, complete |-> FALSE] ]

\* no call of titleVariables
NoTitle == [order |-> <<>>, varUnits |-> <<>>, called |-> FALSE, result |-> [panic |-> FALSE, titleVars |-> <<>>]]

\* the uploads that may run at once
Uploaders == 1..NUploads

\* a target directory with its files, and no upload under way
Disk(files) ==
    [ dir |-> files,            \* the files of the target directory, as <<suffix, content>>
      up |-> [u \in Uploaders |->
                [ pc |-> "idle",            \* "idle", "create", "copy", "done"
                  kind |-> "none",          \* the handler of the upload
                  filePath |-> 0,           \* the suffix of the path it chose
                  existed |-> FALSE ]] ]    \* the path was a file when os.Create was called

NoDisk == Disk({})

\* no request to a file handler
NoTouched == [handler |-> "none", request |-> <<>>, rejected |-> FALSE, paths |-> {}]

NoRequest == HttpRequest("none", NoString, NoString)

\* the configurations of the admission specification
\* (MaxConnection 0 is no limit; a limit of NReq or more is never exceeded)
AdmissionOptions ==
    [ Once : BOOLEAN,
      MaxConnection : 0..(NReq - 1),
      EnableBasicAuth : {TRUE},
      PermitArguments : {TRUE},
      Timeout : {0, TimeoutTicks},
      PermitWrite : {FALSE},
      EnableReconnect : {FALSE},
      ReconnectTime : {ReconnectTime},
      Width : {0},
      Height : {0} ]

\* the configurations of the handshake specification
HandshakeOptions ==
    [ Once : BOOLEAN,
      MaxConnection : {0},
      EnableBasicAuth : BOOLEAN,
      PermitArguments : BOOLEAN,
      Timeout : {0, TimeoutTicks},
      PermitWrite : {FALSE},
      EnableReconnect : {FALSE},
      ReconnectTime : {ReconnectTime},
      Width : {0},
      Height : {0} ]

\* the configurations of the session specification
SessionOptions ==
    [ Once : BOOLEAN,
      MaxConnection : {0},
      EnableBasicAuth : {FALSE},
      PermitArguments : {FALSE},
      Timeout : {TimeoutTicks},
      PermitWrite : BOOLEAN,
      EnableReconnect : BOOLEAN,
      ReconnectTime : {ReconnectTime},
      Width : {0, 80},
      Height : {0, 24} ]

\* the configurations of the liveness specification
LiveOptions ==
    [ Once : BOOLEAN,
      MaxConnection : {0},
      EnableBasicAuth : {FALSE},
      PermitArguments : {FALSE},
      Timeout : {TimeoutTicks},
      PermitWrite : {TRUE},
      EnableReconnect : {FALSE},
      ReconnectTime : {ReconnectTime},
      Width : {0},
      Height : {0} ]

\* the server after generateHandleWS, before any request
HandlerInit(configurations) ==
    /\ options \in configurations
    /\ once = 0
    /\ onceWinners = 0
    /\ connections = 0
    /\ timerArmed = (options.Timeout > 0)
    /\ elapsed = 0
    /\ timerPc = "waiting"
    /\ timerCancels = 0
    /\ timerFiredAt = <<>>
    /\ ctxCancelled = FALSE
    /\ cancelledBy = {}
    /\ pc = [r \in Reqs |-> "idle"]
    /\ request = [r \in Reqs |-> NoRequest]
    /\ num = [r \in Reqs |-> 0]
    /\ response = [r \in Reqs |-> 0]
    /\ closeReason = [r \in Reqs |-> "none"]
    /\ adds = [r \in Reqs |-> 0]
    /\ dones = [r \in Reqs |-> 0]
    /\ upgraded = [r \in Reqs |-> FALSE]
    /\ initLine = [r \in Reqs |-> NoInitLine]
    /\ factoryCalls = [r \in Reqs |-> 0]
    /\ params = [r \in Reqs |-> EmptyValues]
    /\ backend = [r \in Reqs |-> "none"]
    /\ slaveCloses = [r \in Reqs |-> 0]
    /\ connCloses = [r \in Reqs |-> 0]
    /\ err = [r \in Reqs |-> "none"]
    /\ tty = [r \in Reqs |-> NoSession]

\* ... with no page loaded in a browser and nothing uploaded
\* nothing happens outside the handler
Elsewhere(others) ==
    /\ "browser" \in others \/ browser = NoPage
    /\ "upload" \in others \/ upload = NoUpload
    /\ "title" \in others \/ title = NoTitle
    /\ "disk" \in others \/ disk = NoDisk
    /\ "touched" \in others \/ touched = NoTouched

InitOf(configurations) ==
    /\ HandlerInit(configurations)
    /\ Elsewhere({})


(***************************************************************************)
(* The connection counter and the server context.                          *)
(***************************************************************************)
\* counter.add(1): one more connection; a running zero-timer is stopped
add ==
    /\ connections' = connections + 1
    /\ IF options.Timeout > 0
       THEN timerArmed' = FALSE /\ elapsed' = 0
       ELSE UNCHANGED <<timerArmed, elapsed>>

\* counter.done(): one connection fewer; at zero the zero-timer is reset
done ==
    /\ connections' = connections - 1
    /\ IF connections - 1 = 0 /\ options.Timeout > 0
       THEN timerArmed' = TRUE /\ elapsed' = 0
       ELSE UNCHANGED <<timerArmed, elapsed>>

\* cancel(), called by who
cancel(who) ==
    /\ ctxCancelled' = TRUE
    /\ cancelledBy' = cancelledBy \cup {who}

(***************************************************************************)
(* The goroutine started by generateHandleWS, and the passing of time.     *)
(***************************************************************************)
\* (a goroutine that goes back to its select after cancel())
TimerFireAgain ==
    /\ timerPc = "waiting"
    /\ timerArmed /\ elapsed = options.Timeout
    /\ cancel("timer")
    /\ timerCancels' = timerCancels + 1
    /\ timerFiredAt' = <<connections, elapsed>>
    /\ timerArmed' = FALSE
    /\ UNCHANGED <<options, outside, tty, once, onceWinners, connections, elapsed, timerPc, pc, request,
                   counting, handshake, answer>>

\* case <-counter.timer().C: cancel()
TimerFire ==
    /\ timerPc = "waiting"
    /\ timerArmed /\ elapsed = options.Timeout
    /\ cancel("timer")
    /\ timerCancels' = timerCancels + 1
    /\ timerFiredAt' = <<connections, elapsed>>
    /\ timerPc' = "exited"
    /\ timerArmed' = FALSE
    /\ UNCHANGED <<options, outside, tty, once, onceWinners, connections, elapsed, pc, request, counting,
                   handshake, answer>>

\* case <-ctx.Done():
TimerCtxDone ==
    /\ timerPc = "waiting"
    /\ ctxCancelled
    /\ timerPc' = "exited"
    /\ UNCHANGED <<options, outside, tty, admission, timerCancels, timerFiredAt, ctxVars, pc, request,
                   counting, handshake, answer>>

\* one tick of the clock while the zero-timer runs
Tick ==
    /\ timerArmed /\ elapsed < options.Timeout
    /\ elapsed' = elapsed + 1
    /\ UNCHANGED <<options, outside, tty, once, onceWinners, connections, timerArmed, timerVars, ctxVars,
                   pc, request, counting, handshake, answer>>

(***************************************************************************)
(* The handler returned by generateHandleWS, one invocation per request.   *)
(***************************************************************************)
Goto(r, label) == pc' = [pc EXCEPT ![r] = label]

\* (a handler whose deferred function is not run on an early return)
ReturnWithoutDefer(r) == Goto(r, "returned")
\* return from the handler after the first defer statement and before the
\* upgrade: the deferred function is what runs next
Return(r) == Goto(r, "done")

\* (a gate that compares and never swaps)
OnceNotSwapped == once
\* the value of *once after a successful CompareAndSwapInt64(once, 0, 1)
OnceSwapped == IF options.Once THEN 1 ELSE once

\* a new invocation of the handler in slot r, whose earlier invocation (if
\* any) has returned: the once gate, atomic.CompareAndSwapInt64(once, 0, 1)
OnceGate(r, env) ==
    /\ pc[r] \in {"idle", "returned"}
    /\ \E q \in env.requests : request' = [request EXCEPT ![r] = q]
    /\ IF options.Once /\ once # 0
       THEN /\ response' = [response EXCEPT ![r] = 503]
            /\ Goto(r, "returned")
            /\ UNCHANGED <<once, onceWinners>>
       ELSE /\ once' = OnceSwapped
            /\ onceWinners' = IF options.Once THEN onceWinners + 1 ELSE onceWinners
            /\ Goto(r, "add")
            /\ response' = [response EXCEPT ![r] = 0]
    /\ num' = [num EXCEPT ![r] = 0]
    /\ adds' = [adds EXCEPT ![r] = 0]
    /\ dones' = [dones EXCEPT ![r] = 0]
    /\ closeReason' = [closeReason EXCEPT ![r] = "none"]
    /\ upgraded' = [upgraded EXCEPT ![r] = FALSE]
    /\ connCloses' = [connCloses EXCEPT ![r] = 0]
    /\ initLine' = [initLine EXCEPT ![r] = NoInitLine]
    /\ factoryCalls' = [factoryCalls EXCEPT ![r] = 0]
    /\ params' = [params EXCEPT ![r] = EmptyValues]
    /\ backend' = [backend EXCEPT ![r] = "none"]
    /\ slaveCloses' = [slaveCloses EXCEPT ![r] = 0]
    /\ err' = [err EXCEPT ![r] = "none"]
    /\ tty' = [tty EXCEPT ![r] = NoSession]
    /\ UNCHANGED <<options, outside, connections, timerArmed, elapsed, timerVars, ctxVars>>

\* num := counter.add(1); closeReason := "unknown reason"; defer func() {...}()
CounterAdd(r) ==
    /\ pc[r] = "add"
    /\ add
    /\ num' = [num EXCEPT ![r] = connections + 1]
    /\ adds' = [adds EXCEPT ![r] = @ + 1]
    /\ closeReason' = [closeReason EXCEPT ![r] = "unknown reason"]
    /\ Goto(r, "max")
    /\ UNCHANGED <<options, outside, tty, once, onceWinners, timerVars, ctxVars, request, dones, handshake,
                   response, upgraded, connCloses>>

\* (a limit that is off by one)
ExceedsMaxOffByOne(r) == options.MaxConnection # 0 /\ num[r] > options.MaxConnection + 1
\* num > server.options.MaxConnection
ExceedsMax(r) == options.MaxConnection # 0 /\ num[r] > options.MaxConnection

\* The handler reads num here and in the log line that follows, and never
\* again: an admitted invocation carries no num further.
MaxConnectionCheck(r) ==
    /\ pc[r] = "max"
    /\ IF ExceedsMax(r)
       THEN /\ closeReason' = [closeReason EXCEPT ![r] = "exceeding max number of connections"]
            /\ Return(r)
            /\ num' = num
       ELSE /\ Goto(r, "method")
            /\ num' = [num EXCEPT ![r] = 0]
            /\ closeReason' = closeReason
    /\ UNCHANGED <<options, outside, tty, admission, timerVars, ctxVars, request, adds, dones, handshake,
                   response, upgraded, connCloses>>

\* if r.Method != "GET"
MethodCheck(r) ==
    /\ pc[r] = "method"
    /\ IF request[r].method # "GET"
       THEN /\ response' = [response EXCEPT ![r] = 405]
            /\ Return(r)
       ELSE /\ Goto(r, "auth")
            /\ response' = response
    /\ UNCHANGED <<options, outside, tty, admission, timerVars, ctxVars, request, counting, handshake,
                   closeReason, upgraded, connCloses>>

\* whether a token decodes to the credential
DecodesToCredential(token) ==
    ~Base64Decode(token).err /\ Base64Decode(token).bytes = Credential

\* (a check that falls back to the header when the query token is wrong)
BasicAuthFallsBack(q) ==
    \/ q.authQuery # NoString /\ DecodesToCredential(q.authQuery)
    \/ /\ CutFound(q.authorization, " ")
       /\ ToLower(CutBefore(q.authorization, " ")) = <<"b", "a", "s", "i", "c">>
       /\ DecodesToCredential(CutAfter(q.authorization, " "))

\* the credential check of the handler: the auth query parameter when it is
\* not empty, the Authorization header otherwise
BasicAuthOK(q) ==
    IF q.authQuery # NoString
    THEN DecodesToCredential(q.authQuery)
    ELSE /\ CutFound(q.authorization, " ")
         /\ ToLower(CutBefore(q.authorization, " ")) = <<"b", "a", "s", "i", "c">>
         /\ DecodesToCredential(CutAfter(q.authorization, " "))

BasicAuthCheck(r) ==
    /\ pc[r] = "auth"
    /\ IF options.EnableBasicAuth /\ ~BasicAuthOK(request[r])
       THEN /\ response' = [response EXCEPT ![r] = 401]
            /\ Return(r)
       ELSE /\ Goto(r, "upgrade")
            /\ response' = response
    /\ UNCHANGED <<options, outside, tty, admission, timerVars, ctxVars, request, counting, handshake,
                   closeReason, upgraded, connCloses>>

\* conn, err := server.upgrader.Upgrade(w, r, nil); defer conn.Close()
Upgrade(r, env) ==
    /\ pc[r] = "upgrade"
    /\ \E ok \in env.upgradeOk :
         IF ok
         THEN /\ upgraded' = [upgraded EXCEPT ![r] = TRUE]
              /\ response' = [response EXCEPT ![r] = 101]
              /\ Goto(r, "read")
              /\ closeReason' = closeReason
         ELSE /\ closeReason' = [closeReason EXCEPT ![r] = "upgrade error"]
              /\ response' = [response EXCEPT ![r] = 400]
              /\ Return(r)
              /\ upgraded' = upgraded
    /\ UNCHANGED <<options, outside, tty, admission, timerVars, ctxVars, request, counting, handshake,
                   connCloses>>


(***************************************************************************)
(* The webtty session: the options processWSConn gives to webtty.New, and  *)
(* the relay of tty.Run between the client (master) and the process        *)
(* (slave).                                                                *)
(***************************************************************************)
\* (an option list that always permits writes)
WithPermitWriteAlways == TRUE
\* if server.options.PermitWrite { opts = append(opts, webtty.WithPermitWrite()) }
WithPermitWrite == options.PermitWrite

\* (an option list that always sets the reconnect interval)
WithReconnectAlways == Some(options.ReconnectTime)
\* if server.options.EnableReconnect { ... webtty.WithReconnect(ReconnectTime) }
WithReconnect == IF options.EnableReconnect THEN Some(options.ReconnectTime) ELSE None

\* (an option list that never fixes the columns)
WithFixedColumnsNever == None
\* if server.options.Width > 0 { ... webtty.WithFixedColumns(Width) }
WithFixedColumns == IF options.Width > 0 THEN Some(options.Width) ELSE None

\* if server.options.Height > 0 { ... webtty.WithFixedRows(Height) }
WithFixedRows == IF options.Height > 0 THEN Some(options.Height) ELSE None

\* webtty.WithWindowTitle(titleBuf.Bytes())
WithWindowTitle == TitleBytes

\* webtty.New(&wsWrapper{conn}, slave, opts...)
NewSession ==
    Session("Initializing", WithWindowTitle, WithPermitWrite, WithReconnect,
            WithFixedColumns, WithFixedRows)

Closing(s, e) == [s EXCEPT !.state = "Closing", !.err = e]

\* the messages a session sends on entering Running
InitializeMessages(s) ==
    << encode(msgSetWindowTitle, s.windowTitle) >>
    \o (IF s.preferences # None
        THEN << encode(msgSetPreferences, CHOOSE p \in s.preferences : TRUE) >> ELSE <<>>)
    \o (IF s.reconnect # None
        THEN << encode(msgSetReconnect, Itoa(CHOOSE n \in s.reconnect : TRUE)) >> ELSE <<>>)
    \o << encode(msgSetBufferSize, Itoa(s.bufferSize)) >>

\* a tag outside the client-to-server tags
UnknownTag(s, d) == Closing(s, "UnknownMessageType")

\* (a Ping answered only while the session has nothing to forward)
PongWhenIdle(s) ==
    IF s.buffer = <<>> THEN [s EXCEPT !.sent = Append(@, encode(msgPong, <<>>))] ELSE s
\* Ping: a Pong to the client, nothing else
Pong(s) == [s EXCEPT !.sent = Append(@, encode(msgPong, <<>>))]

\* (Input payloads written in reverse order)
WriteInputFirst(s, payload) ==
    IF s.permitWrite THEN [s EXCEPT !.writes = <<payload>> \o @] ELSE s
\* Input: written to the process only with permitWrite, dropped otherwise
WriteInput(s, payload) ==
    IF s.permitWrite THEN [s EXCEPT !.writes = Append(@, payload)] ELSE s

\* ResizeTerminal: a resize of the process unless fixed dimensions are set
Resize(s) ==
    IF s.columns = None /\ s.rows = None THEN [s EXCEPT !.resizes = @ + 1] ELSE s

\* what the session does with one decoded inbound message
HandleMessage(s, d) ==
    IF d.err # "nil" THEN Closing(s, d.err)
    ELSE IF d.tag = msgInput THEN WriteInput(s, d.payload)
    ELSE IF d.tag = msgPing THEN Pong(s)
    ELSE IF d.tag = msgResizeTerminal THEN Resize(s)
    ELSE IF d.tag = msgSetEncoding THEN [s EXCEPT !.encoding = d.payload]
    ELSE IF d.tag = msgInputUnknown THEN s
    ELSE UnknownTag(s, d)

\* (a relay that goes on after the session has ended)
RelayingAfterClose(r) == pc[r] = "running" /\ tty[r].state \in {"Running", "Closing"}
\* the relay of a session works while the session is Running
Relaying(r) == pc[r] = "running" /\ tty[r].state = "Running"

SessionStep(r, s) ==
    /\ tty' = [tty EXCEPT ![r] = s]
    /\ UNCHANGED <<options, outside, admission, timerVars, ctxVars, pc, request, counting, handshake,
                   answer>>

\* tty.Run(ctx) starts: Initializing -> Running
SendInitializeMessage(r) ==
    /\ pc[r] = "running" /\ tty[r].state = "Initializing"
    /\ SessionStep(r, [tty[r] EXCEPT !.state = "Running",
                                     !.sent = @ \o InitializeMessages(tty[r])])

\* the process prints one byte
ProcessOutput(r) ==
    /\ pc[r] = "running" /\ tty[r].state \in {"Initializing", "Running"}
    /\ Len(tty[r].produced) < MaxOutput
    /\ \E b \in OutputBytes :
         SessionStep(r, [tty[r] EXCEPT !.produced = Append(@, b)])

\* process -> client: read a chunk of at most ChunkMax bytes
SlaveRead(r) ==
    /\ Relaying(r)
    /\ tty[r].buffer = <<>>
    /\ tty[r].nread < Len(tty[r].produced)
    /\ LET s == tty[r]
           upto == IF s.nread + ChunkMax < Len(s.produced)
                   THEN s.nread + ChunkMax ELSE Len(s.produced)
       IN  SessionStep(r, [s EXCEPT !.buffer = SubSeq(s.produced, s.nread + 1, upto),
                                    !.nread = upto])

\* (a chunk forwarded and not counted)
ForwardUncounted(s) ==
    [s EXCEPT !.sent = Append(@, encode(msgOutput, s.buffer)),
              !.buffer = <<>>]
\* the chunk goes to the client as one Output message and is counted
Forward(s) ==
    [s EXCEPT !.sent = Append(@, encode(msgOutput, s.buffer)),
              !.bufferSize = @ + Len(s.buffer),
              !.buffer = <<>>]

\* process -> client: forward the chunk
ForwardOutput(r) ==
    /\ Relaying(r)
    /\ tty[r].buffer # <<>>
    /\ SessionStep(r, Forward(tty[r]))

\* process -> client: the process transport reports end-of-stream
SlaveEOF(r) ==
    /\ Relaying(r)
    /\ tty[r].buffer = <<>>
    /\ tty[r].nread = Len(tty[r].produced)
    /\ SessionStep(r, Closing(tty[r], "ErrSlaveClosed"))

\* one frame is decoded and acted upon
Receive(s, frame) ==
    HandleMessage([s EXCEPT !.inbound = Append(@, frame),
                            !.decoded = Append(@, decode(frame))],
                  decode(frame))

\* client -> process: a frame arrives and is read, decoded and acted upon
MasterRead(r, env) ==
    /\ Relaying(r)
    /\ Len(tty[r].inbound) < MaxInbound
    /\ \E frame \in env.frames : SessionStep(r, Receive(tty[r], frame))

\* the client sends a frame; the session reads it later
ClientSend(r, env) ==
    /\ pc[r] = "running" /\ tty[r].state \in {"Initializing", "Running"}
    /\ tty[r].wire = <<>>
    /\ Len(tty[r].inbound) < MaxInbound
    /\ \E frame \in env.frames :
         SessionStep(r, [tty[r] EXCEPT !.wire = Append(@, frame)])

\* (a single loop that reads the client only after it has read the process)
MasterReceiveAfterOutput(r) ==
    /\ Relaying(r)
    /\ tty[r].wire # <<>>
    /\ tty[r].buffer # <<>>
    /\ SessionStep(r, Receive([tty[r] EXCEPT !.wire = Tail(@)], Head(tty[r].wire)))

\* client -> process: the frame that waits is read, decoded and acted upon
MasterReceive(r) ==
    /\ Relaying(r)
    /\ tty[r].wire # <<>>
    /\ SessionStep(r, Receive([tty[r] EXCEPT !.wire = Tail(@)], Head(tty[r].wire)))

\* client -> process: the client transport closes or fails
MasterClosed(r) ==
    /\ Relaying(r)
    /\ SessionStep(r, Closing(tty[r], "ErrMasterClosed"))

\* the context of the server is cancelled
SessionCancelled(r) ==
    /\ Relaying(r)
    /\ ctxCancelled
    /\ SessionStep(r, Closing(tty[r], "Canceled"))

Relay(r, env) ==
    \/ SendInitializeMessage(r)
    \/ ProcessOutput(r)
    \/ SlaveRead(r)
    \/ ForwardOutput(r)
    \/ SlaveEOF(r)
    \/ MasterRead(r, env)
    \/ MasterClosed(r)
    \/ SessionCancelled(r)

\* the relay with frames that wait to be read
RelayQueued(r, env) ==
    \/ SendInitializeMessage(r)
    \/ ProcessOutput(r)
    \/ SlaveRead(r)
    \/ ForwardOutput(r)
    \/ SlaveEOF(r)
    \/ ClientSend(r, env)
    \/ MasterReceive(r)
    \/ MasterClosed(r)
    \/ SessionCancelled(r)

(***************************************************************************)
(* processWSConn.                                                          *)
(***************************************************************************)
\* (err != nil && ... in place of err != nil || ...)
InitErrorAnd(m) ==
    IF m.kind = "readError" THEN "failed to authenticate websocket connection: read"
    ELSE IF m.kind = "binary" THEN "failed to authenticate websocket connection: invalid message type"
    ELSE IF m.kind = "malformed" THEN "failed to authenticate websocket connection: json"
    ELSE IF Base64Decode(m.AuthToken).err /\ Base64Decode(m.AuthToken).bytes # Credential
         THEN "failed to authenticate websocket connection"
    ELSE "nil"

\* the error of the init message, "nil" when it authenticates: ReadMessage
\* fails, the message is not text, json.Unmarshal fails, or the token is
\* not the base64 of the credential
InitError(m) ==
    IF m.kind = "readError" THEN "failed to authenticate websocket connection: read"
    ELSE IF m.kind = "binary" THEN "failed to authenticate websocket connection: invalid message type"
    ELSE IF m.kind = "malformed" THEN "failed to authenticate websocket connection: json"
    ELSE IF Base64Decode(m.AuthToken).err \/ Base64Decode(m.AuthToken).bytes # Credential
         THEN "failed to authenticate websocket connection"
    ELSE "nil"

ReadInitMessage(r, env) ==
    /\ pc[r] = "read"
    /\ \E m \in env.lines :
         /\ initLine' = [initLine EXCEPT ![r] = m]
         /\ IF InitError(m) # "nil"
            THEN /\ err' = [err EXCEPT ![r] = InitError(m)]
                 /\ Goto(r, "switch")
            ELSE /\ Goto(r, "backend")
                 /\ err' = err
    /\ UNCHANGED <<options, outside, tty, admission, timerVars, ctxVars, request, counting, factoryCalls,
                   params, backend, slaveCloses, answer>>

\* (the arguments are used whatever PermitArguments says)
QueryPathUnguarded(m) == IF m.Arguments # NoString THEN m.Arguments ELSE <<"?">>

\* queryPath := "?"; if server.options.PermitArguments && init.Arguments != ""
QueryPath(m) ==
    IF options.PermitArguments /\ m.Arguments # NoString THEN m.Arguments ELSE <<"?">>

\* url.Parse(queryPath); slave, err = server.factory.New(params, headers);
\* defer slave.Close()
NewBackend(r, env) ==
    /\ pc[r] = "backend"
    /\ LET query == UrlParse(QueryPath(initLine[r]))
       IN  IF query.err
           THEN /\ err' = [err EXCEPT ![r] = "failed to parse arguments"]
                /\ Goto(r, "switch")
                /\ UNCHANGED <<factoryCalls, params, backend>>
           ELSE /\ factoryCalls' = [factoryCalls EXCEPT ![r] = @ + 1]
                /\ params' = [params EXCEPT ![r] = UrlQuery(query)]
                /\ \E ok \in env.backendOk :
                     IF ok
                     THEN /\ backend' = [backend EXCEPT ![r] = "open"]
                          /\ Goto(r, "title")
                          /\ err' = err
                     ELSE /\ backend' = [backend EXCEPT ![r] = "failed"]
                          /\ err' = [err EXCEPT ![r] = "failed to create backend"]
                          /\ Goto(r, "switch")
    /\ UNCHANGED <<options, outside, tty, admission, timerVars, ctxVars, request, counting, initLine,
                   slaveCloses, answer>>

\* server.titleTemplate.Execute(titleBuf, titleVars)
FillTitle(r, env) ==
    /\ pc[r] = "title"
    /\ \E ok \in env.titleOk :
         IF ok
         THEN /\ Goto(r, "webtty")
              /\ err' = err
         ELSE /\ err' = [err EXCEPT ![r] = "failed to fill window title template"]
              /\ Goto(r, "slaveClose")
    /\ UNCHANGED <<options, outside, tty, admission, timerVars, ctxVars, request, counting, initLine,
                   factoryCalls, params, backend, slaveCloses, answer>>

\* tty, err := webtty.New(...); the session starts to run
StartSession(r, env) ==
    /\ pc[r] = "webtty"
    /\ \E ok \in env.webttyOk :
         IF ok
         THEN /\ Goto(r, "running")
              /\ err' = err
              /\ tty' = IF env.relay THEN [tty EXCEPT ![r] = NewSession] ELSE tty
         ELSE /\ err' = [err EXCEPT ![r] = "failed to create webtty"]
              /\ Goto(r, "slaveClose")
              /\ tty' = tty
    /\ UNCHANGED <<options, outside, admission, timerVars, ctxVars, request, counting, initLine,
                   factoryCalls, params, backend, slaveCloses, answer>>

\* what tty.Run(ctx) can return
RunErrors(r, env) ==
    IF env.relay
    THEN IF tty[r].state = "Closing" THEN {tty[r].err} ELSE {}
    ELSE env.runErrors \cup (IF ctxCancelled THEN {"Canceled"} ELSE {})

\* err = tty.Run(ctx) returns
SessionEnd(r, env) ==
    /\ pc[r] = "running"
    /\ \E e \in RunErrors(r, env) : err' = [err EXCEPT ![r] = e]
    /\ Goto(r, "slaveClose")
    /\ UNCHANGED <<options, outside, tty, admission, timerVars, ctxVars, request, counting, initLine,
                   factoryCalls, params, backend, slaveCloses, answer>>

\* (a processWSConn without defer slave.Close())
SlaveNotClosed(r) ==
    /\ pc[r] = "slaveClose"
    /\ Goto(r, "switch")
    /\ UNCHANGED <<options, outside, tty, admission, timerVars, ctxVars, request, counting, handshake,
                   answer>>

\* the deferred slave.Close() of processWSConn
SlaveClose(r) ==
    /\ pc[r] = "slaveClose"
    /\ slaveCloses' = [slaveCloses EXCEPT ![r] = @ + 1]
    /\ backend' = [backend EXCEPT ![r] = "closed"]
    /\ Goto(r, "switch")
    /\ UNCHANGED <<options, outside, tty, admission, timerVars, ctxVars, request, counting, initLine,
                   factoryCalls, params, err, answer>>

\* (a switch that tells no process exit from a client failure)
ReasonOfMerged(e) ==
    IF e = (IF ctxCancelled THEN "Canceled" ELSE "nil") THEN "cancelation"
    ELSE IF e \in {"ErrSlaveClosed", "ErrMasterClosed"} THEN "client"
    ELSE "an error"

\* (a switch whose default case blames the client)
ReasonOfClient(e) ==
    IF e = (IF ctxCancelled THEN "Canceled" ELSE "nil") THEN "cancelation"
    ELSE IF e = "ErrSlaveClosed" THEN "backend"
    ELSE "client"

\* switch err { case ctx.Err(): ... }
ReasonOf(e) ==
    IF e = (IF ctxCancelled THEN "Canceled" ELSE "nil") THEN "cancelation"
    ELSE IF e = "ErrSlaveClosed" THEN "backend"
    ELSE IF e = "ErrMasterClosed" THEN "client"
    ELSE "an error"

CloseReasonSwitch(r) ==
    /\ pc[r] = "switch"
    /\ closeReason' = [closeReason EXCEPT ![r] = ReasonOf(err[r])]
    /\ Goto(r, "connClose")
    /\ UNCHANGED <<options, outside, tty, admission, timerVars, ctxVars, request, counting, handshake,
                   response, upgraded, connCloses>>

\* (a handler without defer conn.Close())
ConnNotClosed(r) ==
    /\ pc[r] = "connClose"
    /\ Goto(r, "done")
    /\ UNCHANGED <<options, outside, tty, admission, timerVars, ctxVars, request, counting, handshake, answer>>

\* the deferred conn.Close() of the handler
ConnClose(r) ==
    /\ pc[r] = "connClose"
    /\ connCloses' = [connCloses EXCEPT ![r] = @ + 1]
    /\ Goto(r, "done")
    /\ UNCHANGED <<options, outside, tty, admission, timerVars, ctxVars, request, counting, handshake,
                   response, closeReason, upgraded>>

\* (a deferred function that never cancels)
DeferredDoneNoCancel(r) ==
    /\ pc[r] = "done"
    /\ done
    /\ dones' = [dones EXCEPT ![r] = @ + 1]
    /\ UNCHANGED ctxVars
    /\ Goto(r, "returned")
    /\ UNCHANGED <<options, outside, tty, once, onceWinners, timerVars, request, num, adds, handshake,
                   answer>>

\* (a deferred function that cancels in every mode)
DeferredDoneCancels(r) ==
    /\ pc[r] = "done"
    /\ done
    /\ dones' = [dones EXCEPT ![r] = @ + 1]
    /\ cancel("once")
    /\ Goto(r, "returned")
    /\ UNCHANGED <<options, outside, tty, once, onceWinners, timerVars, request, num, adds, handshake,
                   answer>>

\* the handler's first defer, run last: counter.done(), and cancel() in once mode
DeferredDone(r) ==
    /\ pc[r] = "done"
    /\ done
    /\ dones' = [dones EXCEPT ![r] = @ + 1]
    /\ IF options.Once THEN cancel("once") ELSE UNCHANGED ctxVars
    /\ Goto(r, "returned")
    /\ UNCHANGED <<options, outside, tty, once, onceWinners, timerVars, request, num, adds, handshake,
                   answer>>

(***************************************************************************)
(* The browser client (js/src/main.ts): the page script, the login and the *)
(* connection error handler of the terminal, over sessionStorage.          *)
(***************************************************************************)
\* a value of sessionStorage is falsy when the key is absent or empty
Falsy(v) == v \in {Null, ""}

\* the credentials a login can store
Credentials == {"dTpw", "eDp5"}

\* the pages a browser may open
Pages ==
    { Page(a, t, Null) : a \in BOOLEAN, t \in {Null} \cup Credentials }

BrowserStep(b) ==
    /\ browser' = b
    /\ UNCHANGED <<options, admission, timerVars, ctxVars, pc, request, counting, handshake,
                   answer, tty, upload, title, disk, touched>>

\* the page script runs: storedAuth is read, then the login is shown or the
\* terminal is started with the stored credential
LoadPage ==
    /\ browser.page = "closed"
    /\ LET storedAuth == browser.storage.gotty_auth
       IN  IF browser.authRequired /\ Falsy(storedAuth)
           THEN BrowserStep([browser EXCEPT !.page = "login", !.storedAuth = storedAuth])
           ELSE BrowserStep([browser EXCEPT !.page = "terminal",
                                            !.storedAuth = storedAuth,
                                            !.authToken = IF Falsy(storedAuth) THEN ""
                                                          ELSE storedAuth])

\* the login succeeds: the credential is stored and the terminal started
LoginSuccess ==
    /\ browser.page = "login"
    /\ \E token \in Credentials :
         BrowserStep([browser EXCEPT !.storage.gotty_auth = token,
                                     !.ops = Append(@, "setItem"),
                                     !.page = "terminal",
                                     !.authToken = token])

\* (a handler that reloads with the credential still stored)
OnConnectionErrorKeeps ==
    /\ browser.page = "terminal"
    /\ browser.errors < MaxErrors
    /\ IF browser.authRequired
       THEN BrowserStep([browser EXCEPT !.errors = @ + 1,
                                        !.ops = @ \o <<"reload">>,
                                        !.reloads = @ + 1,
                                        !.page = "closed"])
       ELSE BrowserStep([browser EXCEPT !.errors = @ + 1])

\* wt.onConnectionError: with authentication required the stored credential
\* is removed and the page reloaded
OnConnectionError ==
    /\ browser.page = "terminal"
    /\ browser.errors < MaxErrors
    /\ IF browser.authRequired
       THEN BrowserStep([browser EXCEPT !.errors = @ + 1,
                                        !.storage.gotty_auth = Null,
                                        !.ops = @ \o <<"removeItem", "reload">>,
                                        !.reloads = @ + 1,
                                        !.page = "closed"])
       ELSE BrowserStep([browser EXCEPT !.errors = @ + 1])

\* the file manager saves its state
SaveFileManagerState ==
    /\ browser.page = "terminal"
    /\ browser.storage.fileManagerState = Null
    /\ BrowserStep([browser EXCEPT !.storage.fileManagerState = "saved"])

(***************************************************************************)
(* Chunked upload (server/file_handler.go, handleChunkUpload): the chunks  *)
(* of one fileId in its temp directory, and the files of the target        *)
(* directory.  A file is a pair <<name, content>>; a final file is named   *)
(* by the suffix the handler gave it (0 for the filename itself).          *)
(***************************************************************************)
\* strconv.Atoi, its error ignored: 0 for what is no number
RECURSIVE AtoiDigits(_, _)
AtoiDigits(s, n) ==
    IF s = <<>> THEN n ELSE AtoiDigits(Tail(s), 10 * n + (IndexOf(Digits, Head(s)) - 1))

Atoi(s) ==
    IF s # <<>> /\ \A i \in DOMAIN s : IndexOf(Digits, s[i]) # 0 THEN AtoiDigits(s, 0) ELSE 0

\* the chunk requests a client may send
ChunkRequests ==
    { [method |-> m, chunkIndex |-> c, totalChunks |-> t, chunk |-> b] :
        m \in {"POST", "GET"},
        c \in {<<>>, <<"0">>, <<"1">>, <<"2">>, <<"0", "1">>},
        t \in {<<"2">>, <<"3">>},
        b \in {<<"a">>, <<"b">>} }

Exists(dir, name) == \E f \in dir : f[1] = name
Content(dir, name) == (CHOOSE f \in dir : f[1] = name)[2]

\* os.Create and io.Copy: the file is made, or truncated, and written
Create(dir, name, content) == {f \in dir : f[1] # name} \cup {<<name, content>>}

\* the unique name of the final file: the filename, or the first free name_i.ext
RECURSIVE UniqueName(_, _)
UniqueName(finals, i) == IF Exists(finals, i) THEN UniqueName(finals, i + 1) ELSE i

FinalPath(finals) == IF Exists(finals, 0) THEN UniqueName(finals, 1) ELSE 0

\* (a merge that passes over the chunks it cannot open)
RECURSIVE MergeSkipsMissing(_, _, _, _)
MergeSkipsMissing(dir, i, total, written) ==
    IF i >= total THEN [ok |-> TRUE, content |-> written]
    ELSE IF ~Exists(dir, Itoa(i)) THEN MergeSkipsMissing(dir, i + 1, total, written)
    ELSE MergeSkipsMissing(dir, i + 1, total, written \o Content(dir, Itoa(i)))

\* the merge loop: chunk i is opened by the name strconv.Itoa(i) and copied
\* to the final file; the loop gives up at the first chunk it cannot open
RECURSIVE MergeChunks(_, _, _, _)
MergeChunks(dir, i, total, written) ==
    IF i >= total THEN [ok |-> TRUE, content |-> written]
    ELSE IF ~Exists(dir, Itoa(i)) THEN [ok |-> FALSE, content |-> written]
    ELSE MergeChunks(dir, i + 1, total, written \o Content(dir, Itoa(i)))

UploadStep(u) ==
    /\ upload' = u
    /\ UNCHANGED <<options, admission, timerVars, ctxVars, pc, request, counting, handshake,
                   answer, tty, browser, title, disk, touched>>

\* one request to handleChunkUpload, from its method check to its answer
HandleChunkUpload ==
    /\ upload.requests < MaxUploads
    /\ \E req \in ChunkRequests :
         LET u == [upload EXCEPT !.requests = @ + 1, !.request = Some(req),
                                 !.stored = upload.temp, !.before = upload.finals]
         IN  IF req.method # "POST"
             THEN UploadStep([u EXCEPT !.answer = [status |-> 405, complete |-> FALSE]])
             ELSE IF req.chunkIndex = <<>>
             THEN UploadStep([u EXCEPT !.answer = [status |-> 400, complete |-> FALSE]])
             ELSE
               LET stored == Create(upload.temp, req.chunkIndex, req.chunk)
                   currentChunk == Atoi(req.chunkIndex)
                   total == Atoi(req.totalChunks)
                   finalPath == FinalPath(upload.finals)
                   merged == MergeChunks(stored, 0, total, <<>>)
                   final == Create(upload.finals, finalPath, merged.content)
               IN  IF currentChunk # total - 1
                   THEN UploadStep([u EXCEPT !.temp = stored, !.stored = stored,
                                             !.tempExists = TRUE,
                                             !.answer = [status |-> 200, complete |-> FALSE,
                                                         chunk |-> currentChunk]])
                   ELSE IF ~merged.ok
                   THEN UploadStep([u EXCEPT !.temp = stored, !.stored = stored,
                                             !.tempExists = TRUE,
                                             !.finals = final,
                                             !.answer = [status |-> 500, complete |-> FALSE]])
                   ELSE UploadStep([u EXCEPT !.temp = {}, !.stored = stored,
                                             !.tempExists = FALSE,
                                             !.finals = final,
                                             !.answer = [status |-> 200, complete |-> TRUE,
                                                         filename |-> finalPath,
                                                         size |-> Len(merged.content)]])

(***************************************************************************)
(* titleVariables (server/handlers.go): the variables of the window title  *)
(* template.  A map is a function of its keys; a value of the merged map   *)
(* is a plain variable or the whole map of a group.                        *)
(***************************************************************************)
Plain(v) == [kind |-> "plain", value |-> v, vars |-> <<>>]
Group(m) == [kind |-> "group", value |-> "", vars |-> m]

\* the maps a group may be: the keys k and master, each absent or with a value
UnitMaps ==
    UNION { [keys -> {"1", "2"}] : keys \in SUBSET {"k", "master"} }

\* the groups a caller may pass, by name
VarUnits ==
    UNION { [names -> UnitMaps] : names \in SUBSET {"server", "master", "slave"} }

\* the orders a caller may pass
Orders ==
    { <<"server", "master", "slave">>, <<"server", "master">>, <<"slave", "server">> }

\* (an assignment that keeps the value a key already has)
AssignKeepsFirst(titleVars, unit) ==
    [key \in DOMAIN titleVars \cup DOMAIN unit |->
        IF key \in DOMAIN titleVars THEN titleVars[key] ELSE Plain(unit[key])]

\* vars, ok := varUnits[name]; for key, val := range vars { titleVars[key] = val }
Assign(titleVars, unit) ==
    [key \in DOMAIN titleVars \cup DOMAIN unit |->
        IF key \in DOMAIN unit THEN Plain(unit[key]) ELSE titleVars[key]]

\* the first loop: the groups in order, a panic at a name that is no group
RECURSIVE MergeUnits(_, _, _)
MergeUnits(order, varUnits, titleVars) ==
    IF order = <<>> THEN [panic |-> FALSE, titleVars |-> titleVars]
    ELSE IF Head(order) \notin DOMAIN varUnits THEN [panic |-> TRUE, titleVars |-> <<>>]
    ELSE MergeUnits(Tail(order), varUnits, Assign(titleVars, varUnits[Head(order)]))

\* the second loop: titleVars[name] = varUnits[name]
RECURSIVE SafeNet(_, _, _)
SafeNet(order, varUnits, titleVars) ==
    IF order = <<>> THEN titleVars
    ELSE SafeNet(Tail(order), varUnits,
                 [key \in DOMAIN titleVars \cup {Head(order)} |->
                     IF key = Head(order) THEN Group(varUnits[Head(order)])
                     ELSE titleVars[key]])

titleVariables(order, varUnits) ==
    LET merged == MergeUnits(order, varUnits, <<>>)
    IN  IF merged.panic THEN merged
        ELSE [panic |-> FALSE, titleVars |-> SafeNet(order, varUnits, merged.titleVars)]

\* one call of titleVariables
TitleVariables ==
    /\ ~title.called
    /\ title' = [title EXCEPT !.called = TRUE,
                              !.result = titleVariables(title.order, title.varUnits)]
    /\ UNCHANGED <<options, admission, timerVars, ctxVars, pc, request, counting, handshake,
                   answer, tty, browser, upload, disk, touched>>

(***************************************************************************)
(* Uploads that run at once (server/file_handler.go): net/http serves each *)
(* request in its own goroutine, so the steps of handleFileUpload and of   *)
(* handleChunkUpload on one target name interleave: the search for a free  *)
(* name, os.Create and the copy.                                           *)
(***************************************************************************)
\* what an upload writes
Payload(u) == IF u = 1 THEN <<"a">> ELSE <<"b">>

DiskStep(d) ==
    /\ disk' = d
    /\ UNCHANGED <<options, admission, timerVars, ctxVars, pc, request, counting, handshake,
                   answer, tty, browser, upload, title, touched>>

\* os.Stat of the target and the loop over name_1, name_2, ...: the path the
\* upload will write to (handleFileUpload and the merge of handleChunkUpload)
StatTarget(u) ==
    /\ disk.up[u].pc = "idle"
    /\ \E kind \in {"handleFileUpload", "handleChunkUpload"} :
         DiskStep([disk EXCEPT !.up[u] = [@ EXCEPT !.pc = "create", !.kind = kind,
                                                   !.filePath = FinalPath(disk.dir)]])

\* os.Create(filePath): the file is made, or truncated when it is there
CreateTarget(u) ==
    /\ disk.up[u].pc = "create"
    /\ DiskStep([disk EXCEPT !.dir = Create(@, disk.up[u].filePath, <<>>),
                             !.up[u] = [@ EXCEPT !.pc = "copy",
                                                 !.existed = Exists(disk.dir, disk.up[u].filePath)]])

\* io.Copy to the file: the upload's bytes, or its chunks, are written
CopyTarget(u) ==
    /\ disk.up[u].pc = "copy"
    /\ DiskStep([disk EXCEPT !.dir = Create(@, disk.up[u].filePath, Payload(u)),
                             !.up[u] = [@ EXCEPT !.pc = "done"]])

(***************************************************************************)
(* The paths of the file handlers (server/file_handler.go).  A path is the *)
(* sequence of its elements and whether it starts at the root; "" is the   *)
(* path of no element.                                                     *)
(***************************************************************************)
Path(rooted, segs) == [rooted |-> rooted, segs |-> segs]
Rel(segs) == Path(FALSE, segs)
EmptyString == Rel(<<>>)

\* the elements whose text begins with two dots
DotDotNames == {"..", "..b"}

\* filepath.Clean: "." elements go, ".." takes the element before it away,
\* stays at the front of a relative path and goes at the root
RECURSIVE CleanSegs(_, _, _)
CleanSegs(segs, rooted, out) ==
    IF segs = <<>> THEN out
    ELSE IF Head(segs) = "." THEN CleanSegs(Tail(segs), rooted, out)
    ELSE IF Head(segs) = ".."
         THEN IF out # <<>> /\ out[Len(out)] # ".."
              THEN CleanSegs(Tail(segs), rooted, SubSeq(out, 1, Len(out) - 1))
              ELSE IF rooted THEN CleanSegs(Tail(segs), rooted, out)
              ELSE CleanSegs(Tail(segs), rooted, Append(out, ".."))
    ELSE CleanSegs(Tail(segs), rooted, Append(out, Head(segs)))

Clean(p) == Path(p.rooted, CleanSegs(p.segs, p.rooted, <<>>))

\* strings.HasPrefix(p, "..") of a cleaned path
HasPrefix(p) == ~p.rooted /\ p.segs # <<>> /\ p.segs[1] \in DotDotNames

\* filepath.Join(a, b): the elements of both, cleaned
Join(a, b) == Clean(Path(a.rooted, a.segs \o b.segs))

\* filepath.Base: the last element, "." for the empty path
Base(p) == IF p.segs = <<>> THEN Rel(<<".">>) ELSE Rel(<<p.segs[Len(p.segs)]>>)

\* filepath.Dir of a cleaned path: all but the last element
Dir(p) == IF p.segs = <<>> THEN p ELSE Path(p.rooted, SubSeq(p.segs, 1, Len(p.segs) - 1))

uploadPath == Rel(<<".", "uploads">>)
tempUploadPath == Rel(<<".", "uploads", ".temp">>)

\* the path is ./uploads or below it
Inside(p) == ~p.rooted /\ p.segs # <<>> /\ p.segs[1] = "uploads"

\* the texts a request parameter may be
RawPaths ==
    { EmptyString, Rel(<<".">>), Rel(<<"a">>), Rel(<<"0">>), Rel(<<"..">>), Rel(<<"..", "a">>),
      Rel(<<"a", "..">>), Rel(<<"a", "..", "..">>), Rel(<<"..b">>), Rel(<<"..", "..", "a">>),
      Path(TRUE, <<"a">>), Path(TRUE, <<"..", "a">>) }

\* the name the unique name loop ends with
UniqueElement == Rel(<<"name_1">>)

\* strconv.Atoi of a parameter, its error ignored
AtoiPath(p) == IF p = Rel(<<"1">>) THEN 1 ELSE 0

\* the parameters of a request to a file handler
FileRequest(path, file, filename, fileId, chunkIndex, totalChunks, exists) ==
    [path |-> path, file |-> file, filename |-> filename, fileId |-> fileId,
     chunkIndex |-> chunkIndex, totalChunks |-> totalChunks, exists |-> exists]

\* what a handler did: whether it rejected the request, and the paths it
\* created, read or deleted
Outcome(rejected, paths) == [rejected |-> rejected, paths |-> paths]

\* handleFileDownload and handleFileDelete: os.Stat, then os.Open or os.Remove
FileAccess(req) ==
    IF req.file = EmptyString THEN Outcome(TRUE, {})
    ELSE LET filename == Clean(req.file)
         IN  IF HasPrefix(filename) THEN Outcome(TRUE, {})
             ELSE Outcome(FALSE, {Join(uploadPath, filename)})

\* handleFileUpload with one file: os.MkdirAll of the target and of the
\* directory of the file, os.Stat, the unique name, os.Create
FileUpload(req) ==
    LET targetPath == Clean(IF req.path = EmptyString THEN Rel(<<".">>) ELSE req.path)
        fullTargetPath == Join(uploadPath, targetPath)
        relativePath == Clean(req.filename)
        filePath == Join(fullTargetPath, relativePath)
        taken == req.exists \/ filePath = fullTargetPath
    IN  IF HasPrefix(targetPath) THEN Outcome(TRUE, {})
        ELSE IF HasPrefix(relativePath) THEN Outcome(FALSE, {fullTargetPath})
        ELSE Outcome(FALSE, {fullTargetPath, Dir(filePath), filePath}
                            \cup (IF taken THEN {Join(Dir(filePath), UniqueElement)} ELSE {}))

\* handleChunkUpload: os.MkdirAll of the temp directory, os.Create of the
\* chunk, and for the last chunk the target directory, the final file, the
\* chunks read and the temp directory removed
ChunkUpload(req) ==
    LET targetPath == Clean(IF req.path = EmptyString THEN Rel(<<".">>) ELSE req.path)
        filename == Base(req.filename)
        tempDir == Join(tempUploadPath, req.fileId)
        chunkPath == Join(tempDir, req.chunkIndex)
        fullTargetPath == Join(uploadPath, targetPath)
        finalPath == Join(fullTargetPath, filename)
        taken == req.exists \/ filename.segs[1] \in {".", ".."}
        chunks == {Join(tempDir, Rel(Itoa(i))) : i \in 0..(req.totalChunks - 1)}
    IN  IF EmptyString \in {req.chunkIndex, req.fileId, req.filename} THEN Outcome(TRUE, {})
        ELSE IF HasPrefix(targetPath) THEN Outcome(TRUE, {})
        ELSE IF AtoiPath(req.chunkIndex) # req.totalChunks - 1
        THEN Outcome(FALSE, {tempDir, chunkPath})
        ELSE Outcome(FALSE, {tempDir, chunkPath, fullTargetPath, finalPath} \cup chunks
                            \cup (IF taken THEN {Join(fullTargetPath, UniqueElement)} ELSE {}))

Touch(handler, req, outcome) ==
    /\ touched' = [handler |-> handler, request |-> req, rejected |-> outcome.rejected,
                   paths |-> outcome.paths]
    /\ UNCHANGED <<options, admission, timerVars, ctxVars, pc, request, counting, handshake,
                   answer, tty, browser, upload, title, disk>>

NoRaw == EmptyString

handleFileDownload ==
    /\ touched.handler = "none"
    /\ \E file \in RawPaths :
           LET req == FileRequest(NoRaw, file, NoRaw, NoRaw, NoRaw, 0, TRUE)
           IN  Touch("handleFileDownload", req, FileAccess(req))

handleFileDelete ==
    /\ touched.handler = "none"
    /\ \E file \in RawPaths :
           LET req == FileRequest(NoRaw, file, NoRaw, NoRaw, NoRaw, 0, TRUE)
           IN  Touch("handleFileDelete", req, FileAccess(req))

handleFileUpload ==
    /\ touched.handler = "none"
    /\ \E path \in RawPaths, filename \in RawPaths \ {EmptyString}, exists \in BOOLEAN :
           LET req == FileRequest(path, NoRaw, filename, NoRaw, NoRaw, 0, exists)
           IN  Touch("handleFileUpload", req, FileUpload(req))

handleChunkUpload ==
    /\ touched.handler = "none"
    /\ \E path \in {EmptyString, Rel(<<"a">>), Rel(<<"..", "a">>), Path(TRUE, <<"a">>)},
          filename \in {EmptyString, Rel(<<"a">>), Rel(<<"..">>), Rel(<<"..", "a">>)},
          fileId \in {EmptyString, Rel(<<"a">>), Rel(<<"..", "..", "a">>), Rel(<<"a", "..">>)},
          chunkIndex \in {EmptyString, Rel(<<"0">>), Rel(<<"1">>), Rel(<<"..", "a">>)},
          totalChunks \in {1, 2}, exists \in BOOLEAN :
           LET req == FileRequest(path, NoRaw, filename, fileId, chunkIndex, totalChunks, exists)
           IN  Touch("handleChunkUpload", req, ChunkUpload(req))

(***************************************************************************)
(* Specifications.                                                         *)
(***************************************************************************)
HandleWS(r, env) ==
    \/ OnceGate(r, env)
    \/ CounterAdd(r)
    \/ MaxConnectionCheck(r)
    \/ MethodCheck(r)
    \/ BasicAuthCheck(r)
    \/ Upgrade(r, env)
    \/ ReadInitMessage(r, env)
    \/ NewBackend(r, env)
    \/ FillTitle(r, env)
    \/ StartSession(r, env)
    \/ SessionEnd(r, env)
    \/ SlaveClose(r)
    \/ CloseReasonSwitch(r)
    \/ ConnClose(r)
    \/ DeferredDone(r)

NextOf(R, env) ==
    \/ \E r \in R : HandleWS(r, env)
    \/ TimerFire
    \/ TimerCtxDone
    \/ Tick

\* admission: NReq concurrent invocations with few different inputs
Init == InitOf(AdmissionOptions)
Next == NextOf(Reqs, CoreEnvironment)
Spec == Init /\ [][Next]_vars

\* handshake: one invocation at a time with every input
InitHandshake == InitOf(HandshakeOptions)
NextHandshake == NextOf({1}, FullEnvironment)
SpecHandshake == InitHandshake /\ [][NextHandshake]_vars

\* session: one invocation at a time whose handshake succeeds, and the relay
\* of its session frame by frame
InitSession == InitOf(SessionOptions)
NextSession ==
    \/ \E r \in {1} : HandleWS(r, SessionEnvironment) \/ Relay(r, SessionEnvironment)
    \/ TimerFire
    \/ TimerCtxDone
    \/ Tick
SpecSession == InitSession /\ [][NextSession]_vars

\* liveness: the session specification with frames that wait to be read.
\* The steps of the handler's goroutine, of the two relay goroutines, of the
\* session's reaction to cancellation and of the timer goroutine are taken
\* when they stay possible; nothing makes a client send a request, its init
\* message or a frame, or a process print or exit.
HandlerProgress(r, env) ==
    \/ CounterAdd(r)
    \/ MaxConnectionCheck(r)
    \/ MethodCheck(r)
    \/ BasicAuthCheck(r)
    \/ Upgrade(r, env)
    \/ NewBackend(r, env)
    \/ FillTitle(r, env)
    \/ StartSession(r, env)
    \/ SessionEnd(r, env)
    \/ SlaveClose(r)
    \/ CloseReasonSwitch(r)
    \/ ConnClose(r)
    \/ DeferredDone(r)

InitLive == InitOf(LiveOptions)
NextLive ==
    \/ \E r \in {1} : HandleWS(r, LiveEnvironment) \/ RelayQueued(r, LiveEnvironment)
    \/ TimerFire
    \/ TimerCtxDone
    \/ Tick
Fairness ==
    /\ WF_vars(HandlerProgress(1, LiveEnvironment))
    /\ WF_vars(SendInitializeMessage(1) \/ SessionCancelled(1))
    /\ WF_vars(SlaveRead(1) \/ ForwardOutput(1))
    /\ WF_vars(MasterReceive(1))
    /\ WF_vars(TimerFire \/ TimerCtxDone)
SpecLive == InitLive /\ [][NextLive]_vars /\ Fairness

\* the browser client, whatever the server does
InitClient ==
    /\ HandlerInit(LiveOptions)
    /\ browser \in Pages
    /\ Elsewhere({"browser"})
NextClient ==
    \/ LoadPage
    \/ LoginSuccess
    \/ OnConnectionError
    \/ SaveFileManagerState
SpecClient == InitClient /\ [][NextClient]_vars

\* the chunk upload endpoint, its requests handled one after the other
InitUpload ==
    /\ HandlerInit(LiveOptions)
    /\ upload = NoUpload
    /\ Elsewhere({"upload"})
NextUpload == HandleChunkUpload
SpecUpload == InitUpload /\ [][NextUpload]_vars

\* uploads of one target name at once, the name free or taken
InitDisk ==
    /\ HandlerInit(LiveOptions)
    /\ disk \in {Disk({}), Disk({<<0, <<"o">>>>})}
    /\ Elsewhere({"disk"})
NextDisk == \E u \in Uploaders : StatTarget(u) \/ CreateTarget(u) \/ CopyTarget(u)
SpecDisk == InitDisk /\ [][NextDisk]_vars

\* one request to a file handler, with every choice of its parameters
InitPaths ==
    /\ HandlerInit(LiveOptions)
    /\ touched = NoTouched
    /\ Elsewhere({"touched"})
NextPaths ==
    \/ handleFileDownload
    \/ handleFileDelete
    \/ handleFileUpload
    \/ handleChunkUpload
SpecPaths == InitPaths /\ [][NextPaths]_vars

\* titleVariables with every order and every choice of groups
InitTitle ==
    /\ HandlerInit(LiveOptions)
    /\ \E order \in Orders, varUnits \in VarUnits :
         title = [NoTitle EXCEPT !.order = order, !.varUnits = varUnits]
    /\ Elsewhere({"title"})
NextTitle == TitleVariables
SpecTitle == InitTitle /\ [][NextTitle]_vars

(***************************************************************************)
(* Admission (C1 to C5), under Spec.                                       *)
(***************************************************************************)
ExceedingReason == "exceeding max number of connections"

\* the invocation has called counter.add and not yet counter.done
InFlight(r) == adds[r] = 1 /\ dones[r] = 0

\* the invocation has passed the max-connection check and has not returned
PassedMaxCheck(r) ==
    InFlight(r) /\ pc[r] # "max" /\ closeReason[r] # ExceedingReason

\* the invocation is in flight and is not one the max-connection check
\* rejects: a session, running or about to
RunningSession(r) == InFlight(r) /\ ~ExceedsMax(r)

\* C1: with MaxConnection = N > 0 at most N invocations have passed the
\* max-connection check and not yet returned, and an invocation whose
\* counter.add(1) result exceeds N is never upgraded, never reads an init
\* message and never has a backend created.
C1_AtMostMaxConnections ==
    options.MaxConnection > 0 =>
        /\ Cardinality({r \in Reqs : PassedMaxCheck(r)}) <= options.MaxConnection
        /\ \A r \in Reqs :
             num[r] > options.MaxConnection =>
                 /\ pc[r] \in {"max", "done", "returned"}
                 /\ ~upgraded[r] /\ response[r] = 0
                 /\ initLine[r] = NoInitLine
                 /\ factoryCalls[r] = 0 /\ backend[r] = "none"

\* a session runs at the limit while another invocation was turned away
C1_Witness ==
    /\ options.MaxConnection = 1
    /\ \E r, q \in Reqs :
         /\ pc[r] = "running"
         /\ pc[q] = "returned" /\ num[q] = 2 /\ closeReason[q] = ExceedingReason

\* C2: with MaxConnection = N > 0, a connection that arrives (calls
\* counter.add) while fewer than N sessions are running passes the
\* max-connection check, whatever other invocations are doing. (Fewer than N
\* sessions beside an over-limit invocation in flight means a session has
\* left since that invocation arrived.)
C2_NextArrivalPasses ==
    [][\A r \in Reqs :
         ( /\ pc[r] = "add" /\ pc'[r] = "max"
           /\ options.MaxConnection > 0
           /\ Cardinality({q \in Reqs \ {r} : RunningSession(q)}) < options.MaxConnection )
         => num'[r] <= options.MaxConnection]_vars

\* C3: in once mode exactly one request ever passes the compare-and-swap;
\* every other request is answered 503, and calls neither counter.add nor
\* counter.done, is not upgraded and has no backend created.
C3_OnceAdmitsOne ==
    options.Once =>
        /\ onceWinners <= 1
        /\ (onceWinners = 1) = (once = 1)
        /\ (\E r \in Reqs : pc[r] # "idle") => onceWinners = 1
        /\ Cardinality({r \in Reqs : pc[r] # "idle" /\ response[r] # 503}) <= 1
        /\ \A r \in Reqs :
             response[r] = 503 =>
                 /\ pc[r] = "returned"
                 /\ adds[r] = 0 /\ dones[r] = 0 /\ num[r] = 0
                 /\ ~upgraded[r] /\ factoryCalls[r] = 0 /\ backend[r] = "none"

\* the winner's session runs while another request has been answered 503
C3_Witness ==
    /\ options.Once
    /\ \E r, q \in Reqs : pc[r] = "running" /\ response[q] = 503 /\ connections = 1

\* C4: an invocation that passes the once gate calls counter.add once and,
\* on every exit path, counter.done once; the count is the number of
\* invocations between the two calls and is never negative.
C4_CountIsInFlight ==
    /\ connections = Cardinality({r \in Reqs : InFlight(r)})
    /\ connections >= 0
    /\ \A r \in Reqs :
         /\ adds[r] <= 1 /\ dones[r] <= adds[r]
         /\ pc[r] \in {"idle", "add"} => adds[r] = 0
         /\ pc[r] \notin {"idle", "add", "returned"} => InFlight(r)
         /\ pc[r] = "returned" =>
                IF response[r] = 503
                THEN adds[r] = 0 /\ dones[r] = 0
                ELSE adds[r] = 1 /\ dones[r] = 1

\* one request was rejected with 401 and has returned, one was rejected
\* with 405 and has returned, and the count is back at zero
C4_Witness ==
    /\ connections = 0
    /\ \E r, q \in Reqs :
         /\ pc[r] = "returned" /\ response[r] = 401 /\ dones[r] = 1
         /\ pc[q] = "returned" /\ response[q] = 405 /\ dones[q] = 1

\* the zero-timer has run for the whole timeout with no connection
TimerExpired ==
    options.Timeout > 0 /\ timerArmed /\ elapsed = options.Timeout /\ connections = 0

\* C5 as stated: once the count has been zero for the whole timeout, the
\* timer goroutine, when it has finished, has called cancel() exactly once.
C5_TimerCancelsExactlyOnce ==
    (TimerExpired /\ timerPc = "exited") => timerCancels = 1

\* C5 as amended: the timer goroutine calls cancel() at most once, and only
\* when the count has been zero for the whole timeout since the zero-timer
\* was last started (a connection that enters stops the timer, so it does
\* not fire at the earlier deadline); the goroutine ends without calling
\* cancel() only when a once-mode request has cancelled the context.
C5_TimerCancel ==
    /\ timerCancels <= 1
    /\ timerCancels = 1 =>
           /\ options.Timeout > 0
           /\ timerFiredAt = <<0, options.Timeout>>
           /\ "timer" \in cancelledBy
    /\ timerArmed => connections = 0
    /\ connections > 0 => elapsed = 0
    /\ (timerPc = "exited" /\ timerCancels = 0) => "once" \in cancelledBy
    /\ (TimerExpired /\ timerPc = "exited") =>
           (timerCancels = 1 \/ "once" \in cancelledBy)

\* the goroutine has cancelled the context after a connection came and
\* went: the zero-timer was stopped, restarted at zero, and ran out
C5_Witness ==
    /\ timerCancels = 1
    /\ "once" \notin cancelledBy
    /\ \E r \in Reqs : pc[r] = "returned" /\ dones[r] = 1

(***************************************************************************)
(* Handshake (C6 to C10), under SpecHandshake.                             *)
(***************************************************************************)
\* tokens that are the base64 of the credential
GoodTokens == {t \in {TokGood, TokGoodNL, TokWrong, TokPadded, TokCorrupt} :
                 ~Base64Decode(t).err /\ Base64Decode(t).bytes = Credential}

\* the request presents the credential: in the auth query token when there
\* is one, in a Basic Authorization header otherwise
PresentsCredential(q) ==
    IF q.authQuery # NoString
    THEN q.authQuery \in GoodTokens
    ELSE \E t \in GoodTokens : q.authorization \in {HdrBasic \o t, HdrLowerBasic \o t}

\* the invocation got as far as the credential check
ReachedAuthCheck(r) ==
    /\ pc[r] \notin {"idle", "add", "max", "method", "auth"}
    /\ response[r] \notin {503, 405}
    /\ closeReason[r] # ExceedingReason

\* C6: with EnableBasicAuth, a request that does not present the credential
\* is never upgraded and never has the backend factory called, and the
\* credential check answers it 401.
C6_Unauthorized ==
    options.EnableBasicAuth =>
        \A r \in Reqs :
            (request[r] # NoRequest /\ ~PresentsCredential(request[r])) =>
                /\ ~upgraded[r] /\ response[r] # 101
                /\ initLine[r] = NoInitLine
                /\ factoryCalls[r] = 0 /\ backend[r] = "none"
                /\ ReachedAuthCheck(r) => response[r] = 401 /\ pc[r] \in {"done", "returned"}

\* a request with a wrong query token and a good header was answered 401
C6_Witness ==
    /\ options.EnableBasicAuth
    /\ \E r \in Reqs :
         /\ request[r] = HttpRequest("GET", TokWrong, HdrBasic \o TokGood)
         /\ pc[r] = "returned" /\ response[r] = 401

\* the first message is a text message, valid JSON, with a token that is
\* the base64 of the credential
InitAuthenticates(m) == m.kind = "init" /\ m.AuthToken \in GoodTokens

AuthenticationErrors ==
    { "failed to authenticate websocket connection: read",
      "failed to authenticate websocket connection: invalid message type",
      "failed to authenticate websocket connection: json",
      "failed to authenticate websocket connection" }

\* C7: factory.New is called only after an init message that authenticates
\* was read; after any other first message processWSConn returns an
\* authentication error and no backend is created.
C7_BackendAfterInit ==
    \A r \in Reqs :
        /\ (factoryCalls[r] # 0 \/ backend[r] # "none"
              \/ pc[r] \in {"backend", "title", "webtty", "running", "slaveClose"})
               => InitAuthenticates(initLine[r])
        /\ (initLine[r] # NoInitLine /\ ~InitAuthenticates(initLine[r])) =>
               /\ err[r] \in AuthenticationErrors
               /\ factoryCalls[r] = 0 /\ backend[r] = "none" /\ slaveCloses[r] = 0
               /\ pc[r] \in {"switch", "connClose", "done", "returned"}

\* a handshake with a token that is valid base64 of another credential
\* has ended with an error
C7_Witness ==
    \E r \in Reqs :
        /\ initLine[r] = InitLine("init", TokPadded, ArgOne)
        /\ pc[r] = "returned" /\ err[r] = "failed to authenticate websocket connection"

\* C8: without PermitArguments factory.New gets empty params whatever the
\* init message's Arguments are, so any two handshakes get the same params;
\* and the arguments are not even parsed.
C8_ArgumentsIgnored ==
    ~options.PermitArguments =>
        \A r, q \in Reqs :
            /\ params[r] = EmptyValues
            /\ params[r] = params[q]
            /\ err[r] # "failed to parse arguments"

\* a backend was created for a handshake that sent two arguments
C8_Witness ==
    /\ ~options.PermitArguments
    /\ \E r \in Reqs :
         /\ initLine[r].Arguments = ArgTwo
         /\ factoryCalls[r] = 1 /\ params[r] = EmptyValues /\ backend[r] = "open"

HandshakeErrors ==
    AuthenticationErrors
    \cup { "failed to parse arguments", "failed to create backend",
           "failed to fill window title template" }

\* C9 as stated: when a handshake step fails (credential check, init
\* message, argument parsing, backend creation, window title), no backend
\* has been created: factory.New was not called or returned an error.
C9_FailureBeforeBackend ==
    \A r \in Reqs :
        /\ err[r] \in HandshakeErrors => backend[r] \in {"none", "failed"}
        /\ response[r] = 401 => backend[r] = "none"

\* C10: for an upgraded connection, conn.Close has been called, and
\* slave.Close if a backend was created, when counter.done is called.
C10_ClosedBeforeDone ==
    \A r \in Reqs :
        (upgraded[r] /\ (pc[r] = "done" \/ dones[r] = 1)) =>
            /\ connCloses[r] = 1
            /\ backend[r] \in {"none", "failed", "closed"}
            /\ (backend[r] = "closed") = (slaveCloses[r] = 1)

\* a session has ended, both ends are closed and counter.done is next
C10_Witness ==
    \E r \in Reqs :
        /\ upgraded[r] /\ pc[r] = "done" /\ err[r] = "ErrMasterClosed"
        /\ connCloses[r] = 1 /\ slaveCloses[r] = 1 /\ backend[r] = "closed"

(***************************************************************************)
(* The session (C11, C13 to C20), under SpecSession, and the sources of    *)
(* cancellation (C12), under Spec.                                         *)
(***************************************************************************)
\* C11: when the process transport reports end-of-stream in a running
\* session, the session is Closing, the client transport and the process
\* transport are each closed at most once on the way out and exactly once
\* when the handler has returned, and the active count, one while the
\* session lasts, is back to zero: it went down by exactly one.
C11_EndOfStream ==
    \A r \in {1} :
        tty[r].err = "ErrSlaveClosed" =>
            /\ tty[r].state = "Closing"
            /\ connCloses[r] <= 1 /\ slaveCloses[r] <= 1 /\ dones[r] <= 1
            /\ (dones[r] = 0 => connections = 1)
            /\ (pc[r] = "returned" =>
                   /\ err[r] = "ErrSlaveClosed"
                   /\ closeReason[r] = "backend"
                   /\ connCloses[r] = 1 /\ slaveCloses[r] = 1
                   /\ backend[r] = "closed"
                   /\ dones[r] = 1 /\ connections = 0)

C11_Witness ==
    /\ pc[1] = "returned" /\ tty[1].err = "ErrSlaveClosed"
    /\ tty[1].produced # <<>> /\ tty[1].nread = Len(tty[1].produced)
    /\ connCloses[1] = 1 /\ slaveCloses[1] = 1 /\ connections = 0

\* C12: cancel() is called by the timer goroutine or by the deferred exit of
\* a request in once mode, by nobody else; with once mode off the context is
\* cancelled only by the timer, which fires with no connection counted, so
\* no rejection, handshake failure or session error of one request cancels
\* the context or ends the session of another with "Canceled".
C12_CancelSources ==
    /\ cancelledBy \subseteq {"timer", "once"}
    /\ ("timer" \in cancelledBy) = (timerCancels > 0)
    /\ ("once" \in cancelledBy => options.Once)
    /\ ctxCancelled = (cancelledBy # {})
    /\ ~options.Once =>
          /\ (ctxCancelled => timerCancels = 1 /\ timerFiredAt[1] = 0)
          /\ \A r \in Reqs : err[r] = "Canceled" => timerCancels = 1

\* one request has failed (a rejection, a failed handshake or a session
\* error) while the session of another one runs on, uncancelled
C12_Witness ==
    /\ ~options.Once /\ ~ctxCancelled
    /\ \E r, q \in Reqs :
         /\ r # q
         /\ pc[r] = "returned" /\ dones[r] = 1
         /\ closeReason[r] \in {ExceedingReason, "an error"}
         /\ pc[q] = "running"

\* the frames of a sequence that carry the tag
RECURSIVE Tagged(_, _)
Tagged(frames, tag) ==
    IF frames = <<>> THEN <<>>
    ELSE (IF Head(frames) # <<>> /\ Head(Head(frames)) = tag THEN <<Head(frames)>> ELSE <<>>)
         \o Tagged(Tail(frames), tag)

\* the payloads of a sequence of frames, one after the other
RECURSIVE Payloads(_)
Payloads(frames) ==
    IF frames = <<>> THEN <<>> ELSE <<Tail(Head(frames))>> \o Payloads(Tail(frames))

RECURSIVE Concat(_)
Concat(seqs) == IF seqs = <<>> THEN <<>> ELSE Head(seqs) \o Concat(Tail(seqs))

ProtocolErrors == {MalformedMessage, "UnknownMessageType"}
TransportErrors == {"ErrSlaveClosed", "ErrMasterClosed", "Canceled"}

\* C13: in a session of a server without PermitWrite nothing is ever written
\* to the process transport, whatever frames the client sends, and a dropped
\* Input ends nothing: a session that has read Input messages only is
\* Running, or was ended by a transport or by cancellation.
C13_WriteProtected ==
    \A r \in {1} :
        ~options.PermitWrite =>
            /\ tty[r].writes = <<>>
            /\ (Tagged(tty[r].inbound, msgInput) = tty[r].inbound =>
                  \/ tty[r].state \in {"none", "Initializing", "Running"}
                  \/ tty[r].state = "Closing" /\ tty[r].err \in TransportErrors)

C13_Witness ==
    /\ ~options.PermitWrite
    /\ tty[1].state = "Running"
    /\ tty[1].inbound = << encode(msgInput, <<"a">>), encode(msgInput, <<"1", "b">>) >>
    /\ tty[1].writes = <<>>

\* C14: the session has sent exactly one Pong for every Ping it has read,
\* whatever the process has printed meanwhile and whether or not a chunk
\* waits to be forwarded, and a Ping writes nothing to the process: the
\* writes are never more than the Input messages read.
C14_PingPong ==
    \A r \in {1} :
        /\ Len(Tagged(tty[r].sent, msgPong)) = Len(Tagged(tty[r].inbound, msgPing))
        /\ \A i \in 1..Len(tty[r].sent) :
             tty[r].sent[i][1] = msgPong => tty[r].sent[i] = <<msgPong>>
        /\ Len(tty[r].writes) <= Len(Tagged(tty[r].inbound, msgInput))

\* a Ping answered between the reading of a chunk and its forwarding
C14_Witness ==
    /\ tty[1].buffer # <<>>
    /\ Len(Tagged(tty[1].inbound, msgPing)) = 2
    /\ Len(Tagged(tty[1].sent, msgOutput)) = 1
    /\ tty[1].sent[Len(tty[1].sent)] = <<msgPong>>

FirstFrames ==
    << <<"3", "t">> >>
    \o (IF options.EnableReconnect THEN << <<"5", "1", "0">> >> ELSE <<>>)
    \o << <<"6", "0">> >>

\* C16: a session that has not entered Running has sent nothing; from then
\* on what it has sent begins with SetWindowTitle, SetReconnect (if and only
\* if reconnection is configured) and SetBufferSize, in this order, no
\* preferences being configured; SetWindowTitle is sent once, and so no
\* Output comes before it.
C16_FirstMessages ==
    \A r \in {1} :
        /\ tty[r].state \in {"none", "Initializing"} => tty[r].sent = <<>>
        /\ tty[r].state \in {"Running", "Closing"} =>
             /\ Len(tty[r].sent) >= Len(FirstFrames)
             /\ SubSeq(tty[r].sent, 1, Len(FirstFrames)) = FirstFrames
             /\ Len(Tagged(tty[r].sent, msgSetWindowTitle)) = 1
             /\ Len(Tagged(tty[r].sent, msgSetReconnect))
                  = (IF options.EnableReconnect THEN 1 ELSE 0)
             /\ Len(Tagged(tty[r].sent, msgSetBufferSize)) = 1

\* the process had printed before the session entered Running
C16_Witness ==
    /\ options.EnableReconnect
    /\ tty[1].state = "Running"
    /\ Len(tty[1].sent) = 4
    /\ tty[1].sent[4] = <<msgOutput, "1", "x">>

\* C17: every message a client encoded is decoded by the session to the tag
\* and the payload it was encoded from, and every frame the session sent
\* decodes to a server tag and a payload that encode to the frame.
C17_RoundTrip ==
    \A r \in {1} :
        /\ \A i \in 1..Len(tty[r].inbound) : \A m \in ClientMessages :
             tty[r].inbound[i] = encode(m[1], m[2]) =>
                 tty[r].decoded[i] = [err |-> "nil", tag |-> m[1], payload |-> m[2]]
        /\ \A i \in 1..Len(tty[r].sent) :
             /\ decode(tty[r].sent[i]).err = "nil"
             /\ decode(tty[r].sent[i]).tag \in ServerTags
             /\ encode(decode(tty[r].sent[i]).tag, decode(tty[r].sent[i]).payload)
                  = tty[r].sent[i]
             /\ \/ i <= Len(FirstFrames)
                \/ decode(tty[r].sent[i]).tag = msgPong
                \/ decode(tty[r].sent[i]).payload
                     \in {<<"x">>, <<"1">>, <<"x", "x">>, <<"x", "1">>, <<"1", "x">>, <<"1", "1">>}

\* an Input whose payload begins with a tag character was read and written
C17_Witness ==
    /\ Len(tty[1].inbound) = 2
    /\ tty[1].inbound[2] = <<"1", "1", "b">>
    /\ tty[1].decoded[2].payload = <<"1", "b">>
    /\ tty[1].writes = << <<"1", "b">> >>
    /\ \E i \in 1..Len(tty[1].sent) : tty[1].sent[i] = <<msgOutput, "1">>

\* C18: an empty frame decodes to MalformedMessage, with no tag and no
\* payload, and the session does nothing else with it.
C18_EmptyFrame ==
    \A r \in {1} : \A i \in 1..Len(tty[r].inbound) :
        tty[r].inbound[i] = <<>> =>
            /\ tty[r].decoded[i] = [err |-> MalformedMessage, tag |-> NoTag, payload |-> <<>>]
            /\ i = Len(tty[r].inbound)
            /\ tty[r].err = MalformedMessage

C18_Witness ==
    /\ Len(tty[1].inbound) = 2
    /\ tty[1].inbound[2] = <<>>
    /\ tty[1].decoded[2].err = MalformedMessage

\* frames that are no client message
BadFrame(f) == f = <<>> \/ f[1] \notin ClientTags

\* C19: an empty frame or a frame with a tag outside the client tags is the
\* last frame the session reads: the session is Closing with a protocol
\* error, tty.Run returns that error, which is neither ErrSlaveClosed nor
\* ErrMasterClosed, the handler's close reason is "an error", and outside
\* once mode nobody but the timer has cancelled the server's context.
C19_ProtocolError ==
    \A r \in {1} : \A i \in 1..Len(tty[r].inbound) :
        BadFrame(tty[r].inbound[i]) =>
            /\ i = Len(tty[r].inbound)
            /\ tty[r].state = "Closing"
            /\ tty[r].err \in ProtocolErrors
            /\ pc[r] \in {"running", "slaveClose", "switch", "connClose", "done", "returned"}
            /\ (pc[r] # "running" => err[r] = tty[r].err)
            /\ (pc[r] \in {"connClose", "done", "returned"} => closeReason[r] = "an error")
            /\ (~options.Once /\ timerCancels = 0 => ~ctxCancelled)

C19_Witness ==
    /\ pc[1] = "returned" /\ ~options.Once /\ ~ctxCancelled
    /\ Len(tty[1].inbound) = 2 /\ tty[1].inbound[2] = ForeignFrame
    /\ closeReason[1] = "an error"

\* C20: what the client has got in Output messages is, in order, the bytes
\* of the process that the session has read and forwarded, a prefix of what
\* the process has printed and all of it when nothing is left to read or to
\* forward; with PermitWrite the writes to the process are the payloads of
\* the Input messages in the order they were read.
C20_OrderPreserved ==
    \A r \in {1} :
        LET s == tty[r]
            got == Concat(Payloads(Tagged(SubSeq(s.sent, Len(FirstFrames) + 1, Len(s.sent)),
                                          msgOutput)))
        IN  /\ Len(got) <= Len(s.produced)
            /\ got = SubSeq(s.produced, 1, Len(got))
            /\ (s.state # "none" /\ s.buffer = <<>> => Len(got) = s.nread)
            /\ (s.state # "none" /\ s.buffer = <<>> /\ s.nread = Len(s.produced)
                  => got = s.produced)
            /\ (options.PermitWrite => s.writes = Payloads(Tagged(s.inbound, msgInput)))

C20_Witness ==
    /\ options.PermitWrite
    /\ tty[1].writes = << <<"1", "b">>, <<"a">> >>
    /\ tty[1].produced = <<"1", "x">>
    /\ Len(Tagged(tty[1].sent, msgOutput)) = 2
    /\ tty[1].buffer = <<>>

(***************************************************************************)
(* The life of a session and the endings of a connection (C21 to C30).     *)
(***************************************************************************)
\* the state of the session of an invocation: Closed when the session has
\* ended and both transports are closed
SessionState(r) ==
    IF tty[r].state = "Closing" /\ slaveCloses[r] = 1 /\ connCloses[r] = 1
    THEN "Closed" ELSE tty[r].state

StateRank(state) ==
    CASE state = "none" -> 0
      [] state = "Initializing" -> 1
      [] state = "Running" -> 2
      [] state = "Closing" -> 3
      [] state = "Closed" -> 4

\* a new invocation of the handler starts in the slot
NewInvocation(r) == pc[r] \in {"idle", "returned"} /\ pc'[r] \in {"add", "returned"}

\* C21: in every step the state of a session stays or advances along
\* Initializing, Running, Closing, Closed, unless the step starts a new
\* invocation (whose session is a new one); a session that has left Running
\* relays nothing more, and a Closed session stays Closed.
C21_StateAdvances ==
    [][ \A r \in {1} :
          \/ NewInvocation(r)
          \/ /\ StateRank(SessionState(r)') >= StateRank(SessionState(r))
             /\ (tty[r].state = "Closing" => tty'[r] = tty[r])
             /\ (SessionState(r) = "Closed" => SessionState(r)' = "Closed") ]_vars

C21_Witness ==
    /\ SessionState(1) = "Closed" /\ pc[1] = "returned"
    /\ Len(tty[1].inbound) = MaxInbound /\ Len(tty[1].produced) > tty[1].nread

\* C24: when the handler has returned after tty.Run ended with
\* ErrSlaveClosed the close reason is the backend, after ErrMasterClosed it
\* is the client, and in both cases the backend is closed, the connection is
\* closed and counter.done() was called once.
C24_TwoReasonsOneCleanup ==
    \A r \in {1} :
        pc[r] = "returned" /\ err[r] \in {"ErrSlaveClosed", "ErrMasterClosed"} =>
            /\ closeReason[r] = (IF err[r] = "ErrSlaveClosed" THEN "backend" ELSE "client")
            /\ backend[r] = "closed" /\ slaveCloses[r] = 1
            /\ connCloses[r] = 1
            /\ adds[r] = 1 /\ dones[r] = 1

C24_Witness ==
    /\ pc[1] = "returned" /\ err[1] = "ErrMasterClosed" /\ closeReason[1] = "client"
    /\ slaveCloses[1] = 1 /\ connCloses[1] = 1 /\ dones[1] = 1

\* C25: a connection whose deferred function has run (it logs closeReason
\* and the remote address) was never logged with "unknown reason".
C25_ReasonLogged ==
    \A r \in {1} :
        pc[r] = "returned" /\ dones[r] = 1 => closeReason[r] # "unknown reason"

\* the Output messages a client has got
OutputFrames(s) == Tagged(SubSeq(s.sent, Len(FirstFrames) + 1, Len(s.sent)), msgOutput)

C30_OnceThenShutdown ==
    options.Once =>
        /\ onceWinners <= 1
        /\ (onceWinners = 1) = (once = 1)
        /\ \A r \in {1} :
             /\ (pc[r] = "returned" /\ dones[r] = 1 => ctxCancelled /\ "once" \in cancelledBy)
             /\ (pc[r] = "returned" /\ once = 1 => ctxCancelled /\ "once" \in cancelledBy)
             /\ (adds[r] = 1 => onceWinners = 1)

\* the server shuts down and no session was ever created
C30_Witness ==
    /\ options.Once /\ once = 1 /\ ctxCancelled /\ "once" \in cancelledBy
    /\ pc[1] = "returned" /\ response[1] = 401 /\ factoryCalls[1] = 0 /\ dones[1] = 1

\* the Pongs a session has sent
Pongs(r) == Len(Tagged(tty[r].sent, msgPong))

\* C22: a session that has seen one of the triggers (it is Closing, with
\* the error of the trigger) is eventually Closed, both transports closed
\* once, and the counter has been told (counter.done() called once).
C22_TriggerLeadsToClosed ==
    \A e \in TransportErrors \cup ProtocolErrors :
        (tty[1].state = "Closing" /\ tty[1].err = e /\ pc[1] = "running")
            ~> (/\ SessionState(1) = "Closed" /\ err[1] = e
                /\ slaveCloses[1] = 1 /\ connCloses[1] = 1 /\ backend[1] = "closed"
                /\ dones[1] = 1 /\ pc[1] = "returned")

C22_Witness ==
    /\ SessionState(1) = "Closed" /\ tty[1].err = "Canceled" /\ err[1] = "Canceled"
    /\ pc[1] = "returned" /\ dones[1] = 1 /\ connections = 0

\* C23: a Ping that waits to be read is answered with a Pong, or the
\* session has ended, also when the process prints nothing; and process
\* output that waits to be read or forwarded is forwarded, or the session
\* has ended, also when the client sends nothing.
C23_IndependentProgress ==
    /\ \A n \in 0..MaxInbound :
         (Relaying(1) /\ tty[1].wire = <<encode(msgPing, <<>>)>> /\ Pongs(1) = n)
             ~> (Pongs(1) = n + 1 \/ tty[1].state = "Closing")
    /\ \A n \in 1..MaxOutput :
         (Relaying(1) /\ Len(tty[1].produced) = n)
             ~> (tty[1].bufferSize >= n \/ tty[1].state = "Closing")

\* every Ping was answered while the process had printed nothing
C23_Witness ==
    /\ Relaying(1) /\ tty[1].produced = <<>>
    /\ Len(tty[1].inbound) = MaxInbound /\ Pongs(1) = MaxInbound

\* C27: a connection that is counted when the context is cancelled, or is
\* counted later, eventually ends: its deferred function runs and the count
\* goes down.
C27_CancelledTerminates ==
    (ctxCancelled /\ adds[1] = 1 /\ dones[1] = 0) ~> (dones[1] = 1)

\* C26: on a page with authentication required every reload was made by the
\* connection error handler right after it removed gotty_auth, so the page
\* that loads next finds no credential and shows the login; on a page
\* without authentication the handler removes nothing and reloads nothing:
\* gotty_auth is what it was.
C26_CredentialCleared ==
    browser.page # "none" =>
        /\ \A i \in 1..Len(browser.ops) :
             browser.ops[i] = "reload" => i > 1 /\ browser.ops[i - 1] = "removeItem"
        /\ (browser.authRequired =>
              /\ browser.reloads = browser.errors
              /\ (browser.page = "closed" /\ browser.reloads > 0
                     => browser.storage.gotty_auth = Null)
              /\ (browser.page = "login" => browser.storage.gotty_auth = Null)
              /\ (browser.page = "terminal" /\ browser.reloads > 0
                     => browser.ops[Len(browser.ops)] = "setItem"))
        /\ (~browser.authRequired =>
              /\ browser.reloads = 0 /\ browser.ops = <<>>
              /\ browser.storage.gotty_auth = browser.initialAuth)

\* the stored credential was removed, and the login is shown again
C26_Witness ==
    /\ browser.authRequired /\ browser.initialAuth \in Credentials
    /\ browser.errors = 1 /\ browser.reloads = 1 /\ browser.page = "login"
    /\ browser.storage = [gotty_auth |-> Null, fileManagerState |-> "saved"]

\* the chunks 0..total-1 of a directory, each under the name of its index
AllStored(dir, total) == \A i \in 0..(total - 1) : Exists(dir, Itoa(i))
InIndexOrder(dir, total) == Concat([i \in 1..total |-> Content(dir, Itoa(i - 1))])

ProcessReturned(r) == pc[r] \in {"switch", "connClose", "done", "returned"}

\* C31: a backend that factory.New returned is open only inside
\* processWSConn; when processWSConn has returned, whatever the path (the
\* title template failed, webtty.New failed, tty.Run returned anything), it
\* has been closed, by exactly one slave.Close.
C31_BackendClosedOnReturn ==
    \A r \in {1} :
        /\ backend[r] = "open" => pc[r] \in {"title", "webtty", "running", "slaveClose"}
        /\ ProcessReturned(r) =>
              /\ backend[r] \in {"none", "failed", "closed"}
              /\ slaveCloses[r] = (IF backend[r] = "closed" THEN 1 ELSE 0)
              /\ (factoryCalls[r] = 1 /\ backend[r] # "failed" => backend[r] = "closed")

\* the title template failed after the backend was created, and the
\* backend is closed when the handler reads the error
C31_Witness ==
    /\ pc[1] = "switch" /\ err[1] = "failed to fill window title template"
    /\ factoryCalls[1] = 1 /\ backend[1] = "closed" /\ slaveCloses[1] = 1

C35_FailedMergeLeavesNothing ==
    upload.answer.status = 500 => upload.finals = upload.before

(***************************************************************************)
(* titleVariables (C36), under SpecTitle.                                  *)
(***************************************************************************)
\* the position in the order of the last group that has the key, 0 when none
LastWith(order, varUnits, key) ==
    LET having == {i \in DOMAIN order : key \in DOMAIN varUnits[order[i]]}
    IN  IF having = {} THEN 0 ELSE CHOOSE i \in having : \A j \in having : j <= i

\* C36: titleVariables panics exactly when a name of the order is no group
\* of the units; otherwise the map it returns has the keys of the groups of
\* the order and the names of the order, a name of the order maps to the
\* whole map of its group (also when a group has a plain variable of that
\* name), and any other key maps to its value in the last group of the
\* order that has it.
C36_LaterGroupWins ==
    title.called =>
        LET order == title.order
            varUnits == title.varUnits
            titleVars == title.result.titleVars
        IN  /\ title.result.panic = (\E i \in DOMAIN order : order[i] \notin DOMAIN varUnits)
            /\ ~title.result.panic =>
                 /\ DOMAIN titleVars =
                      Range(order) \cup UNION {DOMAIN varUnits[order[i]] : i \in DOMAIN order}
                 /\ \A key \in DOMAIN titleVars :
                      IF key \in Range(order)
                      THEN titleVars[key] = Group(varUnits[key])
                      ELSE titleVars[key]
                             = Plain(varUnits[order[LastWith(order, varUnits, key)]][key])

\* the three groups have the key k, the first and the last with different
\* values, and the first has a plain variable named as the second group
C36_Witness ==
    /\ title.called /\ ~title.result.panic
    /\ title.order = <<"server", "master", "slave">>
    /\ title.varUnits["server"] = [key \in {"k", "master"} |-> "1"]
    /\ title.varUnits["slave"] = [key \in {"k"} |-> "2"]
    /\ title.result.titleVars["k"] = Plain("2")
    /\ title.result.titleVars["master"] = Group(title.varUnits["master"])

(***************************************************************************)
(* Uploads at once (C33), under SpecDisk.                                  *)
(***************************************************************************)
\* C33: no upload calls os.Create on a path that is a file already, so no
\* file of the target directory is overwritten, also when two uploads of one
\* target name run at once.
C33_NeverOverwrites ==
    \A u \in Uploaders : ~disk.up[u].existed

(***************************************************************************)
(* The paths of the file handlers (C34), under SpecPaths.                  *)
(***************************************************************************)
\* C34: every path a file handler creates, reads or deletes is ./uploads or
\* below it, whatever the parameters of the request.
C34_InsideUploads ==
    \A p \in touched.paths : Inside(p)

=============================================================================
